---------------------------- MODULE Spec2Model ----------------------------
(***************************************************************************)
(* Real-time collaboration core of the group application:                  *)
(*   - compute_permissions          (src/app/utils/permissions.py)         *)
(*   - the Socket.IO handlers, the connection registry, the room presence  *)
(*     map and the room timers      (src/app/__init__.py)                  *)
(*   - the whiteboard session documents (src/app/models/models.py,         *)
(*     src/app/routes/groups.py, src/app/routes/whiteboards.py)            *)
(*   - the document-store wrapper   (src/app/services/database.py)         *)
(***************************************************************************)
EXTENDS Integers, Sequences, FiniteSets, TLC

(***************************************************************************)
(* Python values.  An identifier is either a bson ObjectId or a str; both  *)
(* carry the same 24 hex digits, abbreviated here to a short name.         *)
(***************************************************************************)
None == [t |-> "none", v |-> "None"]

OID(x) == [t |-> "oid", v |-> x]

STR(x) == [t |-> "str", v |-> x]

\* Python str(): an ObjectId prints as its hex digits, None prints as "None".
Str(val) == [t |-> "str", v |-> val.v]

\* The user ids, the whiteboard ids and a malformed id a client may send.
Users == {"u1", "u2"}

WbIds == {"w1", "w2"}

BadId == "zz"

\* ObjectId.is_valid on a str.
IsValidHex(s) == s \in Users \cup WbIds

\* _is_valid_object_id(oid): bool(oid) and ObjectId.is_valid(str(oid))
is_valid_object_id(s) == s # "" /\ IsValidHex(s)

Sids == {"s1", "s2", "s3"}

\* Bounds of the model.
MaxListLen == 2

MaxDraw == 2

MaxParticipants == 3

MaxTicks == 9

MaxDay == 10

\* Sequence helpers.
RECURSIVE SeqsUpTo(_, _)
SeqsUpTo(S, n) ==
    IF n = 0 THEN {<<>>}
    ELSE LET shorter == SeqsUpTo(S, n - 1)
         IN  shorter \cup {Append(s, x) : s \in {q \in shorter : Len(q) = n - 1}, x \in S}

Elems(s) == {s[i] : i \in DOMAIN s}

\* dict.get(field, default) on a document.
Get(doc, field, default) == IF field \in DOMAIN doc THEN doc[field] ELSE default

\* A $set of one field: the field is created when the document lacks it.
SetField(doc, field, val) ==
    [k \in DOMAIN doc \cup {field} |-> IF k = field THEN val ELSE doc[k]]

(***************************************************************************)
(* compute_permissions(wb, user_id)                                        *)
(***************************************************************************)
\* A mutation of compute_permissions: the share list is read from can_draw.
compute_permissions_share_from_draw(wb, user_id) ==
    LET is_creator == Str(Get(wb, "created_by", None)) = Str(user_id)
        can_draw  == is_creator \/ Str(user_id) \in {Str(x) : x \in Elems(Get(wb, "can_draw", <<>>))}
        can_speak == is_creator \/ Str(user_id) \in {Str(x) : x \in Elems(Get(wb, "can_speak", <<>>))}
        can_share == is_creator \/ Str(user_id) \in {Str(x) : x \in Elems(Get(wb, "can_draw", <<>>))}
    IN  [can_draw |-> can_draw, can_speak |-> can_speak, can_share |-> can_share,
         can_publish |-> (can_speak \/ can_share)]

\* A mutation of compute_permissions: can_publish follows can_draw as well.
compute_permissions_publish_any(wb, user_id) ==
    LET is_creator == Str(Get(wb, "created_by", None)) = Str(user_id)
        can_draw  == is_creator \/ Str(user_id) \in {Str(x) : x \in Elems(Get(wb, "can_draw", <<>>))}
        can_speak == is_creator \/ Str(user_id) \in {Str(x) : x \in Elems(Get(wb, "can_speak", <<>>))}
        can_share == is_creator \/ Str(user_id) \in {Str(x) : x \in Elems(Get(wb, "can_share_screen", <<>>))}
    IN  [can_draw |-> can_draw, can_speak |-> can_speak, can_share |-> can_share,
         can_publish |-> (can_draw \/ can_speak \/ can_share)]

compute_permissions(wb, user_id) ==
    LET is_creator == Str(Get(wb, "created_by", None)) = Str(user_id)
        can_draw  == is_creator \/ Str(user_id) \in {Str(x) : x \in Elems(Get(wb, "can_draw", <<>>))}
        can_speak == is_creator \/ Str(user_id) \in {Str(x) : x \in Elems(Get(wb, "can_speak", <<>>))}
        can_share == is_creator \/ Str(user_id) \in {Str(x) : x \in Elems(Get(wb, "can_share_screen", <<>>))}
    IN  [can_draw |-> can_draw, can_speak |-> can_speak, can_share |-> can_share,
         can_publish |-> (can_speak \/ can_share)]

\* dict[k] = v and del dict[k] on a Python dict (a function with a finite domain).
EmptyDict == [k \in {} |-> None]

DictSet(d, k, val) == [x \in DOMAIN d \cup {k} |-> IF x = k THEN val ELSE d[x]]

DictDel(d, k) == [x \in DOMAIN d \ {k} |-> d[x]]

(***************************************************************************)
(* Rooms.  A room name is 'whiteboard:<id>' or the name of a group room;   *)
(* room.startswith('whiteboard:') is kind = "whiteboard" and               *)
(* room.split(':', 1)[1] is the id.                                        *)
(***************************************************************************)
WbRoom(id) == [id |-> id, kind |-> "whiteboard"]

GroupRoom == [id |-> "g1", kind |-> "group"]

NoRoom == [id |-> "", kind |-> "none"]

Rooms == {WbRoom(id) : id \in WbIds \cup {BadId}} \cup {GroupRoom}

\* Drawing payloads a client may send; the empty payload is falsy in Python.
Payloads == {"p1", "p2"}

NoPayload == ""

(***************************************************************************)
(* The one group of the model: create_group_doc stores the owner under     *)
(* 'owner_id' and lists the owner among the members; u2 joined later.      *)
(***************************************************************************)
Group ==
    [_id |-> OID("g1"), owner_id |-> OID("u1"), members |-> <<OID("u1"), OID("u2")>>]

\* Whiteboard.create_whiteboard_doc(group_id, channel_id, created_by, title)
create_whiteboard_doc(group_id, created_by) ==
    [group_id |-> OID(group_id), created_by |-> OID(created_by),
     drawing_data |-> <<>>, raised_hands |-> <<>>,
     participants |-> <<OID(created_by)>>, is_active |-> TRUE]

\* Names bound in the module src/app/__init__.py (its imports and its two
\* top-level definitions); the handlers are closures of create_app and see
\* these names and the locals of create_app.
ModuleGlobals ==
    {"Flask", "render_template", "jsonify", "request", "CORS", "SocketIO", "emit",
     "join_room", "leave_room", "config", "Database", "os", "datetime", "ObjectId",
     "Limiter", "get_remote_address", "threading", "time", "load_dotenv", "asyncio",
     "LiveKitService", "limiter", "create_app"}

\* The session-timer thresholds (seconds) and the monitor's poll interval.
WARN_SECONDS == 900

LIMIT_SECONDS == 1200

POLL_SECONDS == 30

\* One tick of the model clock is TickPolls poll intervals.
TickPolls == 10

TickSeconds == TickPolls * POLL_SECONDS

\* No group_streaks document yet, on day 0 of the calendar.
NoStreaks == [doc |-> None, today |-> 0]

\* LiveKitService() as constructed for the process (init_app is never called):
\* no API client; no background task waits to run, and none has ended in an
\* error of the media provider.
NoMedia == [lkapi |-> None, tasks |-> {}, failed |-> FALSE]

\* The media room: none of the model's users and nobody else is in it, no
\* user holds a token, and no participant's permission has been set.
NoMediaRoom == [can_publish |-> << >>, present |-> {}, others |-> 0, tokens |-> {}]

\* No draw event received or broadcast yet.
NoDraws == [received |-> <<>>, emitted |-> <<>>]

MAX_PARTICIPANTS_PER_ROOM == 10

\* The API client a LiveKitService method creates when it finds none.
LiveKitAPI == [t |-> "obj", v |-> "LiveKitAPI"]

VARIABLES
    connected_users,  \* {user_id: set(sids)}
    sid_to_user,      \* {sid: user_id}
    sio_rooms,        \* the Socket.IO server's rooms: room -> set of sids
    online_users,     \* {room: {user_id: {profile, sid}}}
    room_timers,      \* {room: {start_time, warned}}
    whiteboards,      \* the 'whiteboards' collection: _id -> document
    now,              \* datetime.utcnow(), seconds
    polled,           \* the monitor has polled since the clock last advanced
    emits,            \* the events the last handler emitted and the background
                      \* tasks it started, in order
    dbops,            \* the document-store writes the last handler issued, in order
    last,             \* the last event handled, with its inputs
    perm_call,        \* the last call of compute_permissions and its result
    group,            \* the 'groups' collection: the one group's document
    group_streaks,    \* the 'group_streaks' document of the group, and the calendar
    livekit,          \* the process's LiveKitService and the background tasks
                      \* started on it that have not run yet
    inflight,         \* whiteboard_draw handlers that have started and not returned
    warnings,         \* history: session_warning broadcasts so far, per room
    media,            \* the media server's room of session w1, and who holds a token
    draw_log,         \* history: the allowed draw events of room w1 in the order
                      \* they were received, and in the order they were broadcast
    room_timers_lock, \* the thread inside a "with room_timers_lock" block, or ""
    monitor,          \* where the pass of check_session_timers is, and its timers_copy
    joining,          \* per connection, the room whose join_room handler is inside
                      \* its "with room_timers_lock" block
    connected_users_lock, \* the connection whose handler is inside a
                      \* "with connected_users_lock" block, or ""
    handlers,         \* per connection, where its connect, disconnect, grant_draw
                      \* or revoke_draw handler is, with the uid it works on
                      \* and, for a grant or revoke, the list it read
    messages          \* the 'messages' collection: the group's messages, each
                      \* with its user_id and created_at

vars == <<connected_users, sid_to_user, sio_rooms, online_users, room_timers,
          whiteboards, now, polled, emits, dbops, last, perm_call,
          group, group_streaks, livekit, inflight, warnings, media, draw_log,
          room_timers_lock, monitor, joining, connected_users_lock, handlers,
          messages>>

\* The lock of room_timers and the threads that take it.
locking == <<room_timers_lock, monitor, joining>>

\* The state outside the Socket.IO registry, rooms and sessions.
services == <<group, group_streaks, livekit, inflight, warnings, media, draw_log,
              messages>>
\* The lock of the connection registry and the handlers that take it.
registering == <<connected_users_lock, handlers>>

others == <<services, locking, registering>>

registry == <<connected_users, sid_to_user>>

Ev(event, to, user_id, data) ==
    [user_id |-> user_id, event |-> event, to |-> to, data |-> data]

Op(op, sid, room, arg) == [op |-> op, sid |-> sid, room |-> room, arg |-> arg]

\* A call of compute_permissions that has not returned yet.
PermPending(wb, user_id) ==
    [wb |-> wb, user_id |-> user_id, done |-> FALSE,
     result |-> [can_draw |-> FALSE, can_speak |-> FALSE, can_share |-> FALSE,
                 can_publish |-> FALSE]]

\* No thread holds room_timers_lock: the monitor sleeps between two passes and
\* no join_room handler is inside its block.
MonitorAsleep == [at |-> "sleep", timers_copy |-> <<>>]

NoJoining == [sid \in Sids |-> NoRoom]

\* No connect, disconnect, grant_draw or revoke_draw handler is running.
Idle == [room |-> NoRoom, at |-> "idle", uid |-> "", current |-> <<>>]

NoHandlers == [sid \in Sids |-> Idle]

Init ==
    /\ connected_users = EmptyDict
    /\ sid_to_user = EmptyDict
    /\ sio_rooms = [r \in Rooms |-> {}]
    /\ online_users = EmptyDict
    /\ room_timers = EmptyDict
    /\ whiteboards = EmptyDict
    /\ now = 0
    /\ polled = TRUE
    /\ emits = <<>>
    /\ dbops = <<>>
    /\ last = Op("init", "", NoRoom, "")
    /\ perm_call = PermPending([created_by |-> None], None)
    /\ group = Group
    /\ group_streaks = NoStreaks
    /\ livekit = NoMedia
    /\ inflight = EmptyDict
    /\ warnings = [r \in Rooms |-> 0]
    /\ media = NoMediaRoom
    /\ draw_log = NoDraws
    /\ room_timers_lock = ""
    /\ monitor = MonitorAsleep
    /\ joining = NoJoining
    /\ connected_users_lock = ""
    /\ handlers = NoHandlers
    /\ messages = {}

(***************************************************************************)
(* The document store (src/app/services/database.py).  Every wrapper       *)
(* swallows its exceptions; an update of a document that does not exist    *)
(* modifies nothing.                                                       *)
(***************************************************************************)
DbOp(op, id, field, val) == [val |-> val, field |-> field, id |-> id, op |-> op]

\* find_one('whiteboards', {'_id': ObjectId(wb_id)}) found a document.
WbExists(wbs, id) == id \in DOMAIN wbs

\* push_to_array: $push appends, whether or not the value is already there.
push_to_array(wbs, id, field, val) ==
    IF id \in DOMAIN wbs
    THEN [wbs EXCEPT ![id] = SetField(@, field, Append(Get(@, field, <<>>), val))]
    ELSE wbs

\* pull_from_array: $pull removes every occurrence of the value.
pull_from_array(wbs, id, field, val) ==
    IF id \in DOMAIN wbs /\ field \in DOMAIN wbs[id]
    THEN [wbs EXCEPT ![id] = SetField(@, field, SelectSeq(@[field], LAMBDA x : x # val))]
    ELSE wbs

\* A mutation of the $pop that removes the first element ({'$pop': {field: -1}}).
pop_from_array_first(wbs, id, field) ==
    IF id \in DOMAIN wbs /\ field \in DOMAIN wbs[id] /\ wbs[id][field] # <<>>
    THEN [wbs EXCEPT ![id] = SetField(@, field, Tail(@[field]))]
    ELSE wbs

\* update_one with {'$pop': {field: 1}}: the update holds an operator, so it is
\* sent as it is; $pop 1 removes the last element and leaves an empty array empty.
pop_from_array(wbs, id, field) ==
    IF id \in DOMAIN wbs /\ field \in DOMAIN wbs[id] /\ wbs[id][field] # <<>>
    THEN [wbs EXCEPT ![id] = SetField(@, field, SubSeq(@[field], 1, Len(@[field]) - 1))]
    ELSE wbs

\* update_one with plain fields: wrapped in $set.
update_one_set(wbs, id, field, val) ==
    IF id \in DOMAIN wbs THEN [wbs EXCEPT ![id] = SetField(@, field, val)] ELSE wbs

\* find('whiteboards', {'participants': user_obj_id}), in insertion order.
WbOrder == <<"w1", "w2">>

FindByParticipant(wbs, oid) ==
    SelectSeq(WbOrder, LAMBDA id : id \in DOMAIN wbs /\ oid \in Elems(wbs[id].participants))

(***************************************************************************)
(* The connection registry.                                                *)
(***************************************************************************)
\* "Track connection": s = connected_users.get(uid); if not s: s = set();
\* connected_users[uid] = s; s.add(sid)
TrackConnected(cu, uid, sid) ==
    DictSet(cu, uid, (IF uid \in DOMAIN cu THEN cu[uid] ELSE {}) \cup {sid})

\* A mutation that leaves the emptied set under the user's key.
DiscardConnectedKeepKey(cu, uid, sid) ==
    IF uid \in DOMAIN cu /\ cu[uid] # {} THEN DictSet(cu, uid, cu[uid] \ {sid}) ELSE cu

\* s = connected_users.get(uid); if s: s.discard(sid); if not s: del connected_users[uid]
DiscardConnected(cu, uid, sid) ==
    IF uid \in DOMAIN cu /\ cu[uid] # {}
    THEN IF cu[uid] \ {sid} = {} THEN DictDel(cu, uid) ELSE DictSet(cu, uid, cu[uid] \ {sid})
    ELSE cu

\* A mutation of the lookup that takes an unknown connection for one of u1.
BoundUserAssumed(s2u, sid) == IF sid \in DOMAIN s2u THEN s2u[sid] ELSE "u1"

\* sid_to_user.get(request.sid): the user bound to the connection, or none.
BoundUser(s2u, sid) == Get(s2u, sid, "")

\* if request.sid in sid_to_user: del sid_to_user[request.sid]
DropSid(s2u, sid) == DictDel(s2u, sid)

\* A mutation of the broadcast that ignores skip_sid.
RecipientsWithSender(rooms, room, skip) == IF room \in DOMAIN rooms THEN rooms[room] ELSE {}

\* The connections a room broadcast reaches: the room's members but skip_sid.
Recipients(rooms, room, skip) == IF room \in DOMAIN rooms THEN rooms[room] \ skip ELSE {}

\* The Socket.IO server closes a connection: it leaves every room.
CloseSid(rooms, sid) == [r \in DOMAIN rooms |-> rooms[r] \ {sid}]

\* The public profile of a user document (every user of the model has one).
Profile(uid) == IF uid \in Users THEN uid ELSE "None"

OnlineList(ou, room) == IF room \in DOMAIN ou THEN DOMAIN ou[room] ELSE {}

(***************************************************************************)
(* connect.  The bearer token is absent, forged, or signed for a user.     *)
(* jwt.decode is called with current_app.config[...]: current_app is not   *)
(* a name of the module, so evaluating the arguments raises NameError,     *)
(* which the handler's "except Exception" turns into a denied connect.     *)
(***************************************************************************)
Tokens == {[user_id |-> "", sig |-> "absent"], [user_id |-> "u1", sig |-> "forged"]}
              \cup {[user_id |-> u, sig |-> "ok"] : u \in Users}

\* A mutation of the token check: any token that is present is taken.
ConnectAcceptedUnchecked(token) == token.sig # "absent"

ConnectAccepted(token) ==
    /\ token.sig # "absent"
    /\ "current_app" \in ModuleGlobals
    /\ token.sig = "ok"

HandleConnect(sid, token) ==
    /\ sid \notin DOMAIN sid_to_user
    /\ \A u \in DOMAIN connected_users : sid \notin connected_users[u]
    /\ IF ConnectAccepted(token)
       THEN /\ connected_users' = TrackConnected(connected_users, token.user_id, sid)
            /\ sid_to_user' = DictSet(sid_to_user, sid, token.user_id)
            /\ sio_rooms' = sio_rooms
            /\ emits' = <<Ev("connect_response", {sid}, token.user_id, "Connected")>>
            /\ last' = Op("connect", sid, NoRoom, token)
       ELSE /\ UNCHANGED registry
            /\ sio_rooms' = CloseSid(sio_rooms, sid)
            /\ emits' = <<>>
            /\ last' = Op("connect", sid, NoRoom, token)
    /\ dbops' = <<>>
    /\ UNCHANGED <<online_users, room_timers, whiteboards, now, polled, perm_call, others>>

\* The registry filled the way the repository's test fills it: the body of
\* "Track connection" applied to app.connected_users and app.sid_to_user.
RegisterConnection(sid, uid) ==
    /\ connected_users' = TrackConnected(connected_users, uid, sid)
    /\ sid_to_user' = DictSet(sid_to_user, sid, uid)
    /\ emits' = <<>>
    /\ dbops' = <<>>
    /\ last' = Op("register", sid, NoRoom, uid)
    /\ UNCHANGED <<sio_rooms, online_users, room_timers, whiteboards, now, polled, perm_call, others>>

(***************************************************************************)
(* POST /api/groups/<group_id>/whiteboards: only the group's owner_id may  *)
(* create a session; every member gets can_draw and can_speak.             *)
(***************************************************************************)
FreshWbIds == {i \in DOMAIN WbOrder : WbOrder[i] \notin DOMAIN whiteboards}

CreateWhiteboardSession(user_id) ==
    /\ FreshWbIds # {}
    /\ LET id == WbOrder[CHOOSE i \in FreshWbIds : \A j \in FreshWbIds : i <= j]
           doc == create_whiteboard_doc(Get(group, "_id", None).v, user_id)
       IN  \* 404 when the group is not found, 403 when the user does not own it
           IF group = None \/ Str(Get(group, "owner_id", None)) # STR(user_id)
           THEN /\ whiteboards' = whiteboards
                /\ dbops' = <<>>
                /\ last' = Op("create_whiteboard_session", "", NoRoom, user_id)
           ELSE /\ whiteboards' =
                      DictSet(whiteboards, id,
                              SetField(SetField(doc, "can_draw", Get(group, "members", <<>>)),
                                       "can_speak", Get(group, "members", <<>>)))
                /\ dbops' = <<DbOp("insert", id, "", ""), DbOp("set", id, "can_draw", "")>>
                /\ last' = Op("create_whiteboard_session", "", WbRoom(id), user_id)
    /\ emits' = <<>>
    /\ UNCHANGED <<connected_users, sid_to_user, sio_rooms, online_users, room_timers,
                   now, polled, perm_call, others>>

(***************************************************************************)
(* POST /api/groups/<group_id>/leave.  An owner who leaves hands the group *)
(* to the first other member; the last member's leaving deletes the group  *)
(* and its sessions.                                                       *)
(***************************************************************************)
LeaveGroup(user_id) ==
    /\ IF group = None \/ OID(user_id) \notin Elems(Get(group, "members", <<>>))
       THEN UNCHANGED <<group, whiteboards>>
       ELSE LET members == group.members
                is_owner == Str(group.owner_id) = STR(user_id)
                rest == SelectSeq(members, LAMBDA x : x # OID(user_id))
            IN  IF is_owner /\ Len(members) = 1
                THEN /\ group' = None
                     /\ whiteboards' =
                            [id \in {x \in DOMAIN whiteboards :
                                        Get(whiteboards[x], "group_id", None) # group._id}
                                |-> whiteboards[id]]
                ELSE /\ group' = [group EXCEPT !.owner_id = IF is_owner THEN rest[1] ELSE @,
                                               !.members = rest]
                     /\ whiteboards' = whiteboards
    /\ emits' = <<>>
    /\ dbops' = <<>>
    /\ last' = Op("leave_group", "", NoRoom, user_id)
    /\ UNCHANGED <<connected_users, sid_to_user, sio_rooms, online_users, room_timers,
                   now, polled, perm_call, group_streaks, livekit, inflight, warnings, media, draw_log, locking, registering, messages>>

(***************************************************************************)
(* join_room                                                               *)
(***************************************************************************)
Presence(uid, sid) == [sid |-> sid, profile |-> Profile(uid)]

\* What the handler does to the state other than the lock.
JoinRoomEffects(sid, room, transient) ==
    LET uid == BoundUser(sid_to_user, sid)
        validWb == room.kind = "whiteboard" /\ is_valid_object_id(room.id)
        pushes == validWb /\ is_valid_object_id(uid)
    IN  IF room = NoRoom \/ uid = ""
        THEN /\ emits' = <<>>
             /\ dbops' = <<>>
             /\ last' = Op("join_room", sid, room, uid)
             /\ UNCHANGED <<connected_users, sid_to_user, sio_rooms, online_users,
                            room_timers, whiteboards, now, polled, perm_call, services, registering>>
        ELSE /\ (pushes /\ WbExists(whiteboards, room.id))
                    => Len(whiteboards[room.id].participants) < MaxParticipants
             /\ room_timers' =
                    IF validWb /\ room \notin DOMAIN room_timers
                    THEN DictSet(room_timers, room, [start_time |-> now, warned |-> FALSE])
                    ELSE room_timers
             /\ whiteboards' =
                    IF pushes
                    THEN push_to_array(whiteboards, room.id, "participants", OID(uid))
                    ELSE whiteboards
             /\ dbops' = IF pushes
                         THEN <<DbOp("push", room.id, "participants", OID(uid))>>
                         ELSE <<>>
             \* join_room(room); a KeyError of the Engine.IO mapping is reported
             \* to the sender and the handler carries on
             /\ sio_rooms' = IF transient THEN sio_rooms
                             ELSE [sio_rooms EXCEPT ![room] = @ \cup {sid}]
             /\ online_users' =
                    DictSet(online_users, room,
                            DictSet(Get(online_users, room, EmptyDict), uid, Presence(uid, sid)))
             /\ emits' =
                    (IF transient THEN <<Ev("error", {sid}, uid, "transient")>> ELSE <<>>)
                    \o <<Ev("online_users", Recipients(sio_rooms', room, {}), uid,
                            OnlineList(online_users', room)),
                         Ev("user_joined", Recipients(sio_rooms', room, {}), uid, Profile(uid))>>
             /\ last' = Op("join_room", sid, room, uid)
             /\ UNCHANGED <<connected_users, sid_to_user, now, polled, perm_call, services, registering>>

\* The handler as one step: the lock is taken and released within the step.
OnJoinRoom(sid, room, transient) ==
    /\ room_timers_lock = ""
    /\ JoinRoomEffects(sid, room, transient)
    /\ UNCHANGED locking

\* The handler in two steps, for a room that names a session.  "with
\* room_timers_lock:" blocks until the lock is free and takes it.
JoinAcquire(sid, room) ==
    LET uid == BoundUser(sid_to_user, sid)
    IN  /\ uid # ""
        /\ room.kind = "whiteboard" /\ is_valid_object_id(room.id)
        /\ (is_valid_object_id(uid) /\ WbExists(whiteboards, room.id))
               => Len(whiteboards[room.id].participants) < MaxParticipants
        /\ joining[sid] = NoRoom
        /\ room_timers_lock = ""
        /\ room_timers_lock' = sid
        /\ joining' = [joining EXCEPT ![sid] = room]
        /\ emits' = <<>>
        /\ dbops' = <<>>
        /\ last' = Op("join_lock", sid, room, uid)
        /\ UNCHANGED <<connected_users, sid_to_user, sio_rooms, online_users, room_timers,
                       whiteboards, now, polled, perm_call, services, monitor, registering>>

\* The block of the lock (the timer is inserted when the room has none), the
\* release at its end, and the rest of the handler.
JoinUnderLock(sid) ==
    /\ room_timers_lock = sid
    /\ JoinRoomEffects(sid, joining[sid], FALSE)
    /\ room_timers_lock' = ""
    /\ joining' = [joining EXCEPT ![sid] = NoRoom]
    /\ UNCHANGED monitor

(***************************************************************************)
(* leave_room: the user id is the one the client sends in the payload.     *)
(***************************************************************************)
OnLeaveRoom(sid, room, user_id) ==
    IF room = NoRoom \/ user_id = ""
    THEN /\ emits' = <<>>
         /\ dbops' = <<>>
         /\ last' = Op("leave_room", sid, room, user_id)
         /\ UNCHANGED <<connected_users, sid_to_user, sio_rooms, online_users,
                        room_timers, whiteboards, now, polled, perm_call, others>>
    ELSE LET \* ObjectId(wb_id) and ObjectId(user_id) are both built before the pull
             pulls == room.kind = "whiteboard" /\ IsValidHex(room.id) /\ IsValidHex(user_id)
             \* db is assigned in the whiteboard branch only; elsewhere the profile
             \* lookup raises and the minimal event is sent
             resolved == room.kind = "whiteboard" /\ IsValidHex(user_id)
         IN  /\ sio_rooms' = [sio_rooms EXCEPT ![room] = @ \ {sid}]
             /\ connected_users' = DiscardConnected(connected_users, user_id, sid)
             /\ sid_to_user' = DropSid(sid_to_user, sid)
             /\ whiteboards' =
                    IF pulls
                    THEN pull_from_array(whiteboards, room.id, "participants", OID(user_id))
                    ELSE whiteboards
             /\ dbops' = IF pulls
                         THEN <<DbOp("pull", room.id, "participants", OID(user_id))>>
                         ELSE <<>>
             /\ emits' = <<Ev("user_left", Recipients(sio_rooms', room, {}), user_id,
                              IF resolved THEN Profile(user_id) ELSE "minimal")>>
             /\ last' = Op("leave_room", sid, room, user_id)
             /\ UNCHANGED <<online_users, room_timers, now, polled, perm_call, others>>

(***************************************************************************)
(* disconnect                                                              *)
(***************************************************************************)
\* The presence of uid in the room of the session, as the handler tests it.
PresentIn(ou, id, uid) == WbRoom(id) \in DOMAIN ou /\ uid \in DOMAIN ou[WbRoom(id)]

RECURSIVE DisconnectEmits(_, _, _, _)
DisconnectEmits(found, ou, rooms, uid) ==
    IF found = <<>> THEN <<>>
    ELSE (IF PresentIn(ou, Head(found), uid)
          THEN <<Ev("online_users", Recipients(rooms, WbRoom(Head(found)), {}), uid,
                    DOMAIN ou[WbRoom(Head(found))] \ {uid}),
                 Ev("user_left", Recipients(rooms, WbRoom(Head(found)), {}), uid, "minimal")>>
          ELSE <<>>)
         \o DisconnectEmits(Tail(found), ou, rooms, uid)

\* The sessions whose participants the handler cleans up for uid.
DisconnectSessions(wbs, uid) == FindByParticipant(wbs, OID(uid))

\* What the handler does from its block of connected_users_lock on, with the
\* uid it read from sid_to_user before the block.
DisconnectEffects(sid, uid) ==
    LET found == IF uid # "" /\ IsValidHex(uid)
                 THEN DisconnectSessions(whiteboards, uid)
                 ELSE <<>>
    IN  /\ sio_rooms' = CloseSid(sio_rooms, sid)
        /\ connected_users' =
               IF uid # "" THEN DiscardConnected(connected_users, uid, sid)
               ELSE connected_users
        /\ sid_to_user' = IF uid # "" THEN DropSid(sid_to_user, sid) ELSE sid_to_user
        /\ whiteboards' =
               [id \in DOMAIN whiteboards |->
                   IF id \in Elems(found)
                   THEN pull_from_array(whiteboards, id, "participants", OID(uid))[id]
                   ELSE whiteboards[id]]
        /\ dbops' = [i \in DOMAIN found |-> DbOp("pull", found[i], "participants", OID(uid))]
        /\ online_users' =
               [r \in DOMAIN online_users |->
                   IF r.kind = "whiteboard" /\ r.id \in Elems(found)
                      /\ uid \in DOMAIN online_users[r]
                   THEN DictDel(online_users[r], uid)
                   ELSE online_users[r]]
        /\ emits' = DisconnectEmits(found, online_users, sio_rooms', uid)
        /\ last' = Op("disconnect", sid, NoRoom, uid)
        /\ UNCHANGED <<room_timers, now, polled, perm_call, services, locking>>

\* The handler as one step: the uid is read and the lock is taken and released
\* within the step.
HandleDisconnect(sid) ==
    /\ connected_users_lock = ""
    /\ DisconnectEffects(sid, BoundUser(sid_to_user, sid))
    /\ UNCHANGED registering

\* The steps of a connect or disconnect handler that only move the handler.
HandlerMoves(op, sid, uid) ==
    /\ emits' = <<>>
    /\ dbops' = <<>>
    /\ last' = Op(op, sid, NoRoom, uid)
    /\ UNCHANGED <<connected_users, sid_to_user, sio_rooms, online_users, room_timers,
                   whiteboards, now, polled, perm_call, services, locking>>

\* "Track connection" in two steps, for a connection that authenticated as
\* uid: "with connected_users_lock:" blocks until the lock is free.
ConnectAcquire(sid, uid) ==
    /\ handlers[sid] = Idle
    /\ sid \notin DOMAIN sid_to_user
    /\ connected_users_lock = ""
    /\ connected_users_lock' = sid
    /\ handlers' = [handlers EXCEPT ![sid] = [Idle EXCEPT !.at = "connect_locked", !.uid = uid]]
    /\ HandlerMoves("connect_lock", sid, uid)

\* The block of the lock and its end.
ConnectUnderLock(sid) ==
    /\ handlers[sid].at = "connect_locked"
    /\ connected_users' = TrackConnected(connected_users, handlers[sid].uid, sid)
    /\ sid_to_user' = DictSet(sid_to_user, sid, handlers[sid].uid)
    /\ connected_users_lock' = ""
    /\ handlers' = [handlers EXCEPT ![sid] = Idle]
    /\ emits' = <<>>
    /\ dbops' = <<>>
    /\ last' = Op("register", sid, NoRoom, handlers[sid].uid)
    /\ UNCHANGED <<sio_rooms, online_users, room_timers, whiteboards, now, polled,
                   perm_call, services, locking>>

\* disconnect in three steps.  uid = sid_to_user.get(request.sid) is read
\* before the block of the lock.
DisconnectRead(sid) ==
    /\ handlers[sid] = Idle
    /\ sid \in DOMAIN sid_to_user
    /\ handlers' = [handlers EXCEPT ![sid] = [Idle EXCEPT !.at = "disconnect_read",
                                                          !.uid = BoundUser(sid_to_user, sid)]]
    /\ HandlerMoves("disconnect_read", sid, BoundUser(sid_to_user, sid))
    /\ UNCHANGED connected_users_lock

DisconnectAcquire(sid) ==
    /\ handlers[sid].at = "disconnect_read"
    /\ connected_users_lock = ""
    /\ connected_users_lock' = sid
    /\ handlers' = [handlers EXCEPT ![sid].at = "disconnect_locked"]
    /\ HandlerMoves("disconnect_lock", sid, handlers[sid].uid)

\* The block of the lock, its end, and the rest of the handler.
DisconnectUnderLock(sid) ==
    /\ handlers[sid].at = "disconnect_locked"
    /\ DisconnectEffects(sid, handlers[sid].uid)
    /\ connected_users_lock' = ""
    /\ handlers' = [handlers EXCEPT ![sid] = Idle]

\* The handler when socketio.emit raises in the room of found[k], at the
\* online_users broadcast or at the user_left one: the loop runs inside the one
\* try of the handler, so the exception ends it.  The registry was cleaned
\* before the loop; the sessions up to found[k] had the participant pulled and
\* the presence deleted; the events sent are those before the one that raised.
\* last.room names the room whose broadcast raised.
HandleDisconnectEmitRaises(sid, k, raised) ==
    LET uid == BoundUser(sid_to_user, sid)
        found == IF uid # "" /\ IsValidHex(uid)
                 THEN DisconnectSessions(whiteboards, uid)
                 ELSE <<>>
    IN  /\ k \in DOMAIN found
        /\ PresentIn(online_users, found[k], uid)
        /\ LET done == SubSeq(found, 1, k)
               sent == DisconnectEmits(SubSeq(found, 1, k - 1), online_users, sio_rooms', uid)
           IN  /\ sio_rooms' = CloseSid(sio_rooms, sid)
               /\ connected_users' = DiscardConnected(connected_users, uid, sid)
               /\ sid_to_user' = DropSid(sid_to_user, sid)
               /\ whiteboards' =
                      [id \in DOMAIN whiteboards |->
                          IF id \in Elems(done)
                          THEN pull_from_array(whiteboards, id, "participants", OID(uid))[id]
                          ELSE whiteboards[id]]
               /\ dbops' = [i \in DOMAIN done |-> DbOp("pull", done[i], "participants", OID(uid))]
               /\ online_users' =
                      [r \in DOMAIN online_users |->
                          IF r.kind = "whiteboard" /\ r.id \in Elems(done)
                             /\ uid \in DOMAIN online_users[r]
                          THEN DictDel(online_users[r], uid)
                          ELSE online_users[r]]
               /\ emits' = IF raised = "online_users" THEN sent
                           ELSE sent \o <<Ev("online_users",
                                             Recipients(sio_rooms', WbRoom(found[k]), {}), uid,
                                             DOMAIN online_users[WbRoom(found[k])] \ {uid})>>
               /\ last' = Op("disconnect", sid, WbRoom(found[k]), uid)
               /\ UNCHANGED <<room_timers, now, polled, perm_call, others>>

\* The user each connection authenticates as: two tabs of u1 and one of u2.
SidOwner == [sid \in Sids |-> IF sid = "s3" THEN "u2" ELSE "u1"]

(***************************************************************************)
(* whiteboard_draw                                                         *)
(***************************************************************************)
\* A mutation of the permission check that lets every sender draw.
DrawAllowedAlways(wbs, room, uid) == TRUE

\* allowed: True unless the room names a session that exists, and then the
\* sender's can_draw.
DrawAllowed(wbs, room, uid) ==
    IF room.kind = "whiteboard" /\ is_valid_object_id(room.id) /\ WbExists(wbs, room.id)
    THEN compute_permissions(wbs[room.id], STR(uid)).can_draw
    ELSE TRUE

HandleWhiteboardDraw(sid, room, drawing_data) ==
    LET uid == BoundUser(sid_to_user, sid)
        persists == room.kind = "whiteboard" /\ is_valid_object_id(room.id)
    IN  /\ IF room = NoRoom \/ drawing_data = NoPayload \/ uid = ""
              \/ ~DrawAllowed(whiteboards, room, uid)
           THEN /\ emits' = <<>>
                /\ dbops' = <<>>
                /\ whiteboards' = whiteboards
           ELSE /\ (persists /\ WbExists(whiteboards, room.id))
                       => Len(whiteboards[room.id].drawing_data) < MaxDraw
                /\ emits' = <<Ev("draw_update", Recipients(sio_rooms, room, {sid}), uid,
                                 drawing_data)>>
                /\ whiteboards' =
                       IF persists
                       THEN push_to_array(whiteboards, room.id, "drawing_data", drawing_data)
                       ELSE whiteboards
                /\ dbops' = IF persists
                            THEN <<DbOp("push", room.id, "drawing_data", drawing_data)>>
                            ELSE <<>>
        /\ last' = Op("whiteboard_draw", sid, room, drawing_data)
        /\ UNCHANGED <<connected_users, sid_to_user, sio_rooms, online_users, room_timers,
                       now, polled, perm_call, others>>

(***************************************************************************)
(* undo_action and clear_board: both require can_draw on a session that    *)
(* exists.                                                                 *)
(***************************************************************************)
\* The handler reaches the session and the sender has can_draw on it.
EditsBoard(sid, room) ==
    /\ room.kind = "whiteboard"
    /\ BoundUser(sid_to_user, sid) # ""
    /\ is_valid_object_id(room.id)
    /\ WbExists(whiteboards, room.id)
    /\ compute_permissions(whiteboards[room.id], STR(BoundUser(sid_to_user, sid))).can_draw

HandleUndoAction(sid, room) ==
    /\ IF EditsBoard(sid, room)
       THEN /\ whiteboards' = pop_from_array(whiteboards, room.id, "drawing_data")
            /\ dbops' = <<DbOp("pop", room.id, "drawing_data", 1)>>
            /\ emits' = <<Ev("undo_action", Recipients(sio_rooms, room, {sid}),
                             BoundUser(sid_to_user, sid), "")>>
       ELSE /\ whiteboards' = whiteboards
            /\ dbops' = <<>>
            /\ emits' = <<>>
    /\ last' = Op("undo_action", sid, room, "")
    /\ UNCHANGED <<connected_users, sid_to_user, sio_rooms, online_users, room_timers,
                   now, polled, perm_call, others>>

HandleClearBoard(sid, room) ==
    /\ IF EditsBoard(sid, room)
       THEN /\ whiteboards' = update_one_set(whiteboards, room.id, "drawing_data", <<>>)
            /\ dbops' = <<DbOp("set", room.id, "drawing_data", <<>>)>>
            /\ emits' = <<Ev("board_cleared", Recipients(sio_rooms, room, {}),
                             BoundUser(sid_to_user, sid), "")>>
       ELSE /\ whiteboards' = whiteboards
            /\ dbops' = <<>>
            /\ emits' = <<>>
    /\ last' = Op("clear_board", sid, room, "")
    /\ UNCHANGED <<connected_users, sid_to_user, sio_rooms, online_users, room_timers,
                   now, polled, perm_call, others>>

(***************************************************************************)
(* message, typing_indicator, raise_hand and clear_hand.                   *)
(***************************************************************************)
HandleMessage(sid, room, message) ==
    LET uid == BoundUser(sid_to_user, sid)
    IN  /\ emits' = IF room # NoRoom /\ message # NoPayload /\ uid # ""
                    THEN <<Ev("new_message", Recipients(sio_rooms, room, {}), uid, message)>>
                    ELSE <<>>
        /\ dbops' = <<>>
        /\ last' = Op("message", sid, room, message)
        /\ UNCHANGED <<connected_users, sid_to_user, sio_rooms, online_users, room_timers,
                       whiteboards, now, polled, perm_call, others>>

HandleTyping(sid, room, is_typing) ==
    LET uid == BoundUser(sid_to_user, sid)
    IN  /\ emits' = IF room # NoRoom /\ uid # ""
                    THEN <<Ev("user_typing", Recipients(sio_rooms, room, {sid}), uid, is_typing)>>
                    ELSE <<>>
        /\ dbops' = <<>>
        /\ last' = Op("typing_indicator", sid, room, is_typing)
        /\ UNCHANGED <<connected_users, sid_to_user, sio_rooms, online_users, room_timers,
                       whiteboards, now, polled, perm_call, others>>

\* raise_hand and clear_hand get as far as the document store.
HandReachesStore(sid, room) ==
    /\ room.kind = "whiteboard"
    /\ BoundUser(sid_to_user, sid) # ""
    /\ is_valid_object_id(room.id)
    \* ObjectId(uid) raises on a malformed id
    /\ IsValidHex(BoundUser(sid_to_user, sid))

HandleRaiseHand(sid, room) ==
    LET uid == BoundUser(sid_to_user, sid)
    IN  /\ IF HandReachesStore(sid, room)
           THEN /\ WbExists(whiteboards, room.id)
                       => Len(Get(whiteboards[room.id], "raised_hands", <<>>)) < MaxListLen
                /\ whiteboards' = push_to_array(whiteboards, room.id, "raised_hands", OID(uid))
                /\ dbops' = <<DbOp("push", room.id, "raised_hands", OID(uid))>>
                /\ emits' = <<Ev("hand_raised", Recipients(sio_rooms, room, {}), uid,
                                 Profile(uid))>>
           ELSE /\ whiteboards' = whiteboards
                /\ dbops' = <<>>
                /\ emits' = <<>>
        /\ last' = Op("raise_hand", sid, room, "")
        /\ UNCHANGED <<connected_users, sid_to_user, sio_rooms, online_users, room_timers,
                       now, polled, perm_call, others>>

HandleClearHand(sid, room) ==
    LET uid == BoundUser(sid_to_user, sid)
    IN  /\ IF HandReachesStore(sid, room)
           THEN /\ whiteboards' = pull_from_array(whiteboards, room.id, "raised_hands", OID(uid))
                /\ dbops' = <<DbOp("pull", room.id, "raised_hands", OID(uid))>>
                /\ emits' = <<Ev("hand_cleared", Recipients(sio_rooms, room, {}), uid, "")>>
           ELSE /\ whiteboards' = whiteboards
                /\ dbops' = <<>>
                /\ emits' = <<>>
        /\ last' = Op("clear_hand", sid, room, "")
        /\ UNCHANGED <<connected_users, sid_to_user, sio_rooms, online_users, room_timers,
                       now, polled, perm_call, others>>

(***************************************************************************)
(* grant_draw and revoke_draw.  The requester must be the session's        *)
(* creator, or the user stored under the group's 'owner' field (groups     *)
(* store their owner under 'owner_id').                                    *)
(***************************************************************************)
\* The requester may change the session's permissions.
MayEditDraw(wb, requester) ==
    LET is_owner == Str(Get(group, "owner", None)) = STR(requester)
    IN  Str(Get(wb, "created_by", None)) = STR(requester) \/ is_owner

\* The handler gets as far as the permission check.
EditReachesSession(sid, room) ==
    /\ room.kind = "whiteboard"
    /\ BoundUser(sid_to_user, sid) # ""
    /\ is_valid_object_id(room.id)
    /\ WbExists(whiteboards, room.id)

\* [str(x) for x in list]
StrList(list) == [i \in DOMAIN list |-> Str(list[i])]

\* A mutation of the broadcast: the lists of the document as it was fetched
\* before the update.
PermissionsUpdatedStale(wbs, rooms, room, requester) ==
    Ev("permissions_updated", Recipients(rooms, room, {}), requester,
       [can_draw |-> StrList(Get(whiteboards[room.id], "can_draw", <<>>)),
        can_speak |-> StrList(Get(whiteboards[room.id], "can_speak", <<>>)),
        can_share_screen |-> StrList(Get(whiteboards[room.id], "can_share_screen", <<>>))])

\* The permissions_updated broadcast: the three lists of the re-fetched document.
PermissionsUpdated(wbs, rooms, room, requester) ==
    Ev("permissions_updated", Recipients(rooms, room, {}), requester,
       [can_draw |-> StrList(Get(wbs[room.id], "can_draw", <<>>)),
        can_speak |-> StrList(Get(wbs[room.id], "can_speak", <<>>)),
        can_share_screen |-> StrList(Get(wbs[room.id], "can_share_screen", <<>>))])

HandleGrantDraw(sid, room, target_user) ==
    LET requester == BoundUser(sid_to_user, sid)
    IN  /\ IF /\ EditReachesSession(sid, room)
              /\ MayEditDraw(whiteboards[room.id], requester)
              \* ObjectId(target_user) raises on a malformed id
              /\ IsValidHex(target_user)
           THEN LET current == Get(whiteboards[room.id], "can_draw", <<>>)
                    grows == OID(target_user) \notin Elems(current)
                IN  /\ whiteboards' =
                           IF grows
                           THEN update_one_set(whiteboards, room.id, "can_draw",
                                               Append(current, OID(target_user)))
                           ELSE whiteboards
                    /\ dbops' = IF grows THEN <<DbOp("set", room.id, "can_draw", "")>>
                                ELSE <<>>
                    /\ emits' = <<PermissionsUpdated(whiteboards', sio_rooms, room, requester)>>
           ELSE /\ whiteboards' = whiteboards
                /\ dbops' = <<>>
                /\ emits' = <<>>
        /\ last' = Op("grant_draw", sid, room, target_user)
        /\ UNCHANGED <<connected_users, sid_to_user, sio_rooms, online_users, room_timers,
                       now, polled, perm_call, others>>

HandleRevokeDraw(sid, room, target_user) ==
    LET requester == BoundUser(sid_to_user, sid)
    IN  /\ IF /\ EditReachesSession(sid, room)
              /\ MayEditDraw(whiteboards[room.id], requester)
           THEN LET current == Get(whiteboards[room.id], "can_draw", <<>>)
                IN  /\ whiteboards' =
                           update_one_set(whiteboards, room.id, "can_draw",
                                          SelectSeq(current,
                                                    LAMBDA x : Str(x) # STR(target_user)))
                    /\ dbops' = <<DbOp("set", room.id, "can_draw", "")>>
                    /\ emits' = <<PermissionsUpdated(whiteboards', sio_rooms, room, requester)>>
           ELSE /\ whiteboards' = whiteboards
                /\ dbops' = <<>>
                /\ emits' = <<>>
        /\ last' = Op("revoke_draw", sid, room, target_user)
        /\ UNCHANGED <<connected_users, sid_to_user, sio_rooms, online_users, room_timers,
                       now, polled, perm_call, others>>

(***************************************************************************)
(* grant_draw and revoke_draw in two steps: the handler fetches the        *)
(* session and passes the checks, and later writes the list it built from  *)
(* the fetched document, re-fetches and broadcasts.  Handlers of other     *)
(* connections may run in between.                                         *)
(***************************************************************************)
EditOps == {"grant_draw", "revoke_draw"}

\* wb = db.find_one(...) up to current = wb.get('can_draw', []).
EditRead(op, sid, room, target_user) ==
    /\ handlers[sid] = Idle
    /\ EditReachesSession(sid, room)
    /\ MayEditDraw(whiteboards[room.id], BoundUser(sid_to_user, sid))
    /\ op = "grant_draw" => IsValidHex(target_user)
    /\ handlers' = [handlers EXCEPT ![sid] =
                        [room |-> room, at |-> op, uid |-> target_user,
                         current |-> Get(whiteboards[room.id], "can_draw", <<>>)]]
    /\ emits' = <<>>
    /\ dbops' = <<>>
    /\ last' = Op("edit_read", sid, room, target_user)
    /\ UNCHANGED <<connected_users, sid_to_user, sio_rooms, online_users, room_timers,
                   whiteboards, now, polled, perm_call, services, locking,
                   connected_users_lock>>

\* A mutation: the update is built from the list the store holds at the write.
EditBaseStored(sid) == Get(whiteboards[handlers[sid].room.id], "can_draw", <<>>)

\* The list the handler builds its update from: the one of the document it
\* fetched.
EditBase(sid) == handlers[sid].current

\* The list a grant writes, or none when the target is in the list it read.
GrantWrites(current, target_user) == OID(target_user) \notin Elems(current)

\* db.update_one(... {'can_draw': current}), the re-fetch and the broadcast.
\* An update of a session that is gone modifies nothing, and the re-fetch then
\* finds None: the AttributeError ends the handler without a broadcast.
EditWrite(sid) ==
    LET h == handlers[sid]
        requester == BoundUser(sid_to_user, sid)
        writes == h.at = "revoke_draw" \/ GrantWrites(EditBase(sid), h.uid)
        list == IF h.at = "grant_draw"
                THEN Append(EditBase(sid), OID(h.uid))
                ELSE SelectSeq(EditBase(sid), LAMBDA x : Str(x) # STR(h.uid))
    IN  /\ h.at \in EditOps
        /\ whiteboards' = IF writes
                          THEN update_one_set(whiteboards, h.room.id, "can_draw", list)
                          ELSE whiteboards
        /\ dbops' = IF writes THEN <<DbOp("set", h.room.id, "can_draw", "")>> ELSE <<>>
        /\ emits' = IF WbExists(whiteboards', h.room.id)
                    THEN <<PermissionsUpdated(whiteboards', sio_rooms, h.room, requester)>>
                    ELSE <<>>
        /\ last' = Op(h.at, sid, h.room, h.uid)
        /\ handlers' = [handlers EXCEPT ![sid] = Idle]
        /\ UNCHANGED <<connected_users, sid_to_user, sio_rooms, online_users, room_timers,
                       now, polled, perm_call, services, locking, connected_users_lock>>

(***************************************************************************)
(* grant_speak, revoke_speak, grant_screen_share and revoke_screen_share.   *)
(* Each starts the background task that pushes the target's publish        *)
(* permission to the media server, then broadcasts permissions_updated;    *)
(* the revocations then notify every registered connection of the target.  *)
(***************************************************************************)
\* grant_screen_share and revoke_screen_share accept the session's creator only.
MayEditScreen(wb, requester) == Str(Get(wb, "created_by", None)) = STR(requester)

\* socketio.start_background_task(_run_async_coro, _update_lk_permissions(...)).
UpdateLkPermissions(wb, target_user, room) ==
    Ev("update_lk_permissions", {}, target_user,
       compute_permissions(wb, STR(target_user)).can_publish)

\* socketio.start_background_task: the task waits to run.  Tasks that are the
\* same wait as one: running one leaves the service as running both would.
StartTask(lk, task) == [lk EXCEPT !.tasks = @ \cup {task}]

\* A mutation of the end of a task: a failure is sent to the room as an error.
TaskOutcomeEmitsError(applied, task) ==
    IF applied THEN <<>> ELSE <<Ev("error", {}, task.user_id, "")>>

\* What a task sends to clients when it ends: nothing; _update_lk_permissions
\* and _run_async_coro print the outcome, success or failure.
TaskOutcomeEmits(applied, task) == <<>>

\* A started _update_lk_permissions task runs, in any order with the others:
\* update_participant_permission finds no client and creates one,
\* LiveKitAPI(None, None, None), which reads the process environment and
\* raises when the keys are not there; the RPC that follows sets the
\* participant's permission at the media server to the can_publish the task
\* computed when it was started, or fails, and either way is only logged.
RunUpdateLkPermissions ==
    /\ \E task \in livekit.tasks, client \in {None, LiveKitAPI}, rpc_ok \in BOOLEAN :
           LET lkapi == IF livekit.lkapi = None THEN client ELSE livekit.lkapi
               applied == lkapi # None /\ rpc_ok
           IN  /\ livekit' = [lkapi |-> lkapi, tasks |-> livekit.tasks \ {task},
                              failed |-> livekit.failed \/ ~applied]
               /\ media' = IF applied
                           THEN [media EXCEPT !.can_publish = DictSet(@, task.user_id, task.data)]
                           ELSE media
               /\ emits' = TaskOutcomeEmits(applied, task)
    /\ dbops' = <<>>
    /\ last' = Op("update_lk_permissions", "", NoRoom, "")
    /\ UNCHANGED <<connected_users, sid_to_user, sio_rooms, online_users, room_timers,
                   whiteboards, now, polled, perm_call, group, group_streaks, inflight,
                   warnings, draw_log, locking, registering, messages>>

\* The orders in which 'for sid in sids' may visit a set.
ForceOrders(sids) ==
    {q \in [1..Cardinality(sids) -> sids] : \A x \in sids : \E i \in DOMAIN q : q[i] = x}

\* connected_users.get(str(target_user), set()).copy()
TargetSids(cu, target_user) == Get(cu, target_user, {})

GrantCapability(op, field, may, sid, room, target_user) ==
    LET requester == BoundUser(sid_to_user, sid)
    IN  /\ IF /\ EditReachesSession(sid, room)
              /\ may
              \* ObjectId(target_user) raises on a malformed id
              /\ IsValidHex(target_user)
           THEN LET current == Get(whiteboards[room.id], field, <<>>)
                    grows == OID(target_user) \notin Elems(current)
                IN  /\ whiteboards' =
                           IF grows
                           THEN update_one_set(whiteboards, room.id, field,
                                               Append(current, OID(target_user)))
                           ELSE whiteboards
                    /\ dbops' = IF grows THEN <<DbOp("set", room.id, field, "")>>
                                ELSE <<>>
                    /\ emits' = <<UpdateLkPermissions(whiteboards'[room.id], target_user, room),
                                  PermissionsUpdated(whiteboards', sio_rooms, room, requester)>>
                    /\ livekit' = StartTask(livekit, UpdateLkPermissions(whiteboards'[room.id],
                                                                         target_user, room))
           ELSE /\ whiteboards' = whiteboards
                /\ dbops' = <<>>
                /\ emits' = <<>>
                /\ livekit' = livekit
        /\ last' = Op(op, sid, room, target_user)
        /\ UNCHANGED <<connected_users, sid_to_user, sio_rooms, online_users, room_timers,
                       now, polled, perm_call, group, group_streaks, inflight, warnings, media, draw_log, locking, registering, messages>>

RevokeCapability(op, field, force, may, sid, room, target_user) ==
    LET requester == BoundUser(sid_to_user, sid)
    IN  /\ IF EditReachesSession(sid, room) /\ may
           THEN LET current == Get(whiteboards[room.id], field, <<>>)
                IN  /\ whiteboards' =
                           update_one_set(whiteboards, room.id, field,
                                          SelectSeq(current,
                                                    LAMBDA x : Str(x) # STR(target_user)))
                    /\ dbops' = <<DbOp("set", room.id, field, "")>>
                    /\ \E order \in ForceOrders(TargetSids(connected_users, target_user)) :
                           emits' =
                               <<UpdateLkPermissions(whiteboards'[room.id], target_user, room),
                                 PermissionsUpdated(whiteboards', sio_rooms, room, requester)>>
                               \o [i \in DOMAIN order |->
                                      Ev(force, {order[i]}, target_user, "")]
                    /\ livekit' = StartTask(livekit, UpdateLkPermissions(whiteboards'[room.id],
                                                                         target_user, room))
           ELSE /\ whiteboards' = whiteboards
                /\ dbops' = <<>>
                /\ emits' = <<>>
                /\ livekit' = livekit
        /\ last' = Op(op, sid, room, target_user)
        /\ UNCHANGED <<connected_users, sid_to_user, sio_rooms, online_users, room_timers,
                       now, polled, perm_call, group, group_streaks, inflight, warnings, media, draw_log, locking, registering, messages>>

HandleGrantSpeak(sid, room, target_user) ==
    GrantCapability("grant_speak", "can_speak",
                    EditReachesSession(sid, room)
                        => MayEditDraw(whiteboards[room.id], BoundUser(sid_to_user, sid)),
                    sid, room, target_user)

HandleRevokeSpeak(sid, room, target_user) ==
    RevokeCapability("revoke_speak", "can_speak", "force_mute",
                     EditReachesSession(sid, room)
                         => MayEditDraw(whiteboards[room.id], BoundUser(sid_to_user, sid)),
                     sid, room, target_user)

HandleGrantScreenShare(sid, room, target_user) ==
    GrantCapability("grant_screen_share", "can_share_screen",
                    EditReachesSession(sid, room)
                        => MayEditScreen(whiteboards[room.id], BoundUser(sid_to_user, sid)),
                    sid, room, target_user)

HandleRevokeScreenShare(sid, room, target_user) ==
    RevokeCapability("revoke_screen_share", "can_share_screen", "force_stop_screen",
                     EditReachesSession(sid, room)
                         => MayEditScreen(whiteboards[room.id], BoundUser(sid_to_user, sid)),
                     sid, room, target_user)

(***************************************************************************)
(* DELETE /api/whiteboards/<wb_id>: the creator ends the session.  The     *)
(* route imports socketio from the app module, which binds no such name,   *)
(* so the notification is not sent.                                        *)
(***************************************************************************)
EndWhiteboard(user_id, wb_id) ==
    /\ IF /\ IsValidHex(wb_id)
          /\ WbExists(whiteboards, wb_id)
          /\ Str(Get(whiteboards[wb_id], "created_by", None)) = STR(user_id)
       THEN /\ whiteboards' =
                   update_one_set(update_one_set(whiteboards, wb_id, "is_active", FALSE),
                                  wb_id, "ended_at", now)
            /\ dbops' = <<DbOp("set", wb_id, "is_active", FALSE)>>
            /\ emits' = IF "socketio" \in ModuleGlobals
                        THEN <<Ev("session_ended", Recipients(sio_rooms, WbRoom(wb_id), {}),
                                  user_id, "")>>
                        ELSE <<>>
       ELSE /\ whiteboards' = whiteboards
            /\ dbops' = <<>>
            /\ emits' = <<>>
    /\ last' = Op("end_whiteboard", "", WbRoom(wb_id), user_id)
    /\ UNCHANGED <<connected_users, sid_to_user, sio_rooms, online_users, room_timers,
                   now, polled, perm_call, others>>

(***************************************************************************)
(* The session-timer monitor: one pass over a copy of room_timers, then a  *)
(* sleep of POLL_SECONDS.  The model clock advances TickSeconds at a time  *)
(* and the monitor has polled before it advances again.                    *)
(***************************************************************************)
session_duration(timers, room, t) == t - timers[room].start_time

TimerExpired(timers, room, t) == session_duration(timers, room, t) > LIMIT_SECONDS

TimerWarns(timers, room, t) ==
    /\ ~TimerExpired(timers, room, t)
    /\ session_duration(timers, room, t) > WARN_SECONDS
    /\ ~timers[room].warned

\* The rooms of room_timers in the order the pass visits them.
TimerOrder == <<WbRoom("w1"), WbRoom("w2")>>

\* start_background_task(_run_async_coro, livekit_service.lkapi.room.delete_room(
\* room=room)): the argument is evaluated first, and with no client
\* (lkapi is None) it raises AttributeError, which is caught and logged.
DeleteRoomTask(lk, room) ==
    IF lk.lkapi = None THEN <<>> ELSE <<Ev("delete_room", {}, "", room)>>

RECURSIVE TimerEmits(_, _, _, _, _)
TimerEmits(order, timers, rooms, t, lk) ==
    IF order = <<>> THEN <<>>
    ELSE (IF Head(order) \notin DOMAIN timers THEN <<>>
          ELSE IF TimerExpired(timers, Head(order), t)
          THEN <<Ev("session_ended", Recipients(rooms, Head(order), {}), "", "Time limit reached.")>>
               \o DeleteRoomTask(lk, Head(order))
          ELSE IF TimerWarns(timers, Head(order), t)
          THEN <<Ev("session_warning", Recipients(rooms, Head(order), {}), "", 5)>>
          ELSE <<>>)
         \o TimerEmits(Tail(order), timers, rooms, t, lk)

\* One pass of the monitor.  db_ok: the document store takes the updates of
\* the pass; when it does not, Database() raises or update_one returns False
\* after swallowing the error, and the pass goes on either way.
CheckSessionTimersDb(db_ok) ==
    LET expired == {r \in DOMAIN room_timers : TimerExpired(room_timers, r, now)}
    IN  /\ ~polled
        /\ polled' = TRUE
        /\ whiteboards' =
               [id \in DOMAIN whiteboards |->
                   IF WbRoom(id) \in expired /\ db_ok
                   THEN update_one_set(update_one_set(whiteboards, id, "is_active", FALSE),
                                       id, "ended_at", now)[id]
                   ELSE whiteboards[id]]
        /\ dbops' = SelectSeq([i \in DOMAIN TimerOrder |->
                                  DbOp("set", TimerOrder[i].id, "is_active", FALSE)],
                              LAMBDA d : WbRoom(d.id) \in expired)
        /\ room_timers' =
               [r \in DOMAIN room_timers \ expired |->
                   IF TimerWarns(room_timers, r, now)
                   THEN [room_timers[r] EXCEPT !.warned = TRUE]
                   ELSE room_timers[r]]
        /\ emits' = TimerEmits(TimerOrder, room_timers, sio_rooms, now, livekit)
        /\ warnings' = [r \in Rooms |->
                           IF r \in DOMAIN room_timers /\ TimerWarns(room_timers, r, now)
                           THEN warnings[r] + 1 ELSE warnings[r]]
        /\ last' = Op("check_session_timers", "", NoRoom, IF db_ok THEN "" ELSE "db_down")
        /\ UNCHANGED <<connected_users, sid_to_user, sio_rooms, online_users, now, perm_call,
                       group, group_streaks, livekit, inflight, media, draw_log, locking, registering, messages>>

\* A pass of the monitor with the document store at work.
CheckSessionTimers == CheckSessionTimersDb(TRUE)

\* A pass of the monitor while the document store is down.
CheckSessionTimersDbDown == CheckSessionTimersDb(FALSE)

(***************************************************************************)
(* The pass of the monitor step by step, as the thread it runs in takes    *)
(* and releases room_timers_lock.  now is read once, before the pass.      *)
(***************************************************************************)
\* list(room_timers.items())
TimerItems(timers) ==
    LET rooms == SelectSeq(TimerOrder, LAMBDA r : r \in DOMAIN timers)
    IN  [i \in DOMAIN rooms |-> [room |-> rooms[i], timer_data |-> timers[rooms[i]]]]

\* The entry of timers_copy the loop is at, as a map of its one room.
VisitedTimer == DictSet(EmptyDict, Head(monitor.timers_copy).room,
                        Head(monitor.timers_copy).timer_data)

\* The steps of the monitor that leave the sessions, the map and the
\* broadcasts alone.
MonitorMoves(op, room) ==
    /\ emits' = <<>>
    /\ dbops' = <<>>
    /\ last' = Op(op, "", room, "")
    /\ UNCHANGED <<connected_users, sid_to_user, sio_rooms, online_users,
                   whiteboards, now, perm_call, services, joining, registering>>

\* "with room_timers_lock:" at the head of the pass.
MonitorAcquire ==
    /\ monitor.at = "sleep"
    /\ ~polled
    /\ room_timers_lock = ""
    /\ room_timers_lock' = "monitor"
    /\ monitor' = [monitor EXCEPT !.at = "copy"]
    /\ MonitorMoves("timers_lock", NoRoom)
    /\ UNCHANGED <<room_timers, polled>>

\* timers_copy = list(room_timers.items()), and the end of the block.
MonitorSnapshot ==
    /\ monitor.at = "copy"
    /\ monitor' = [at |-> "visit", timers_copy |-> TimerItems(room_timers)]
    /\ room_timers_lock' = ""
    /\ MonitorMoves("timers_copy", NoRoom)
    /\ UNCHANGED <<room_timers, polled>>

\* The body of the loop for one entry of timers_copy, up to the access to
\* room_timers its branch ends with.
MonitorVisit ==
    /\ monitor.at = "visit"
    /\ monitor.timers_copy # <<>>
    /\ LET room == Head(monitor.timers_copy).room
       IN  /\ IF TimerExpired(VisitedTimer, room, now)
              THEN /\ whiteboards' =
                          [id \in DOMAIN whiteboards |->
                              IF WbRoom(id) = room
                              THEN update_one_set(update_one_set(whiteboards, id, "is_active", FALSE),
                                                  id, "ended_at", now)[id]
                              ELSE whiteboards[id]]
                   /\ dbops' = <<DbOp("set", room.id, "is_active", FALSE)>>
                   /\ emits' = <<Ev("session_ended", Recipients(sio_rooms, room, {}), "",
                                    "Time limit reached.")>>
                               \o DeleteRoomTask(livekit, room)
                   /\ monitor' = [monitor EXCEPT !.at = "delete"]
                   /\ UNCHANGED warnings
              ELSE IF TimerWarns(VisitedTimer, room, now)
              THEN /\ emits' = <<Ev("session_warning", Recipients(sio_rooms, room, {}), "", 5)>>
                   /\ warnings' = [warnings EXCEPT ![room] = @ + 1]
                   /\ monitor' = [monitor EXCEPT !.at = "warn"]
                   /\ dbops' = <<>>
                   /\ UNCHANGED whiteboards
              ELSE /\ emits' = <<>>
                   /\ dbops' = <<>>
                   /\ monitor' = [monitor EXCEPT !.timers_copy = Tail(@)]
                   /\ UNCHANGED <<whiteboards, warnings>>
           /\ last' = Op("timer_visit", "", room, "")
    /\ UNCHANGED <<connected_users, sid_to_user, sio_rooms, online_users, room_timers,
                   now, polled, perm_call, group, group_streaks, livekit, inflight, media,
                   draw_log, room_timers_lock, joining, registering, messages>>

\* if room in room_timers: del room_timers[room].  The statement is in no
\* block of the lock: it runs whoever holds the lock.
MonitorDelete ==
    /\ monitor.at = "delete"
    /\ LET room == Head(monitor.timers_copy).room
       IN  /\ room_timers' = IF room \in DOMAIN room_timers
                             THEN [r \in DOMAIN room_timers \ {room} |-> room_timers[r]]
                             ELSE room_timers
           /\ MonitorMoves("timer_delete", room)
    /\ monitor' = [at |-> "visit", timers_copy |-> Tail(monitor.timers_copy)]
    /\ UNCHANGED <<polled, room_timers_lock>>

\* "with room_timers_lock:" of the warning branch.
MonitorWarnAcquire ==
    /\ monitor.at = "warn"
    /\ room_timers_lock = ""
    /\ room_timers_lock' = "monitor"
    /\ monitor' = [monitor EXCEPT !.at = "set_warned"]
    /\ MonitorMoves("timers_lock", Head(monitor.timers_copy).room)
    /\ UNCHANGED <<room_timers, polled>>

\* if room in room_timers: room_timers[room]['warned'] = True, and the end of
\* the block.
MonitorSetWarned ==
    /\ monitor.at = "set_warned"
    /\ LET room == Head(monitor.timers_copy).room
       IN  /\ room_timers' = IF room \in DOMAIN room_timers
                             THEN [room_timers EXCEPT ![room].warned = TRUE]
                             ELSE room_timers
           /\ MonitorMoves("timer_warned", room)
    /\ monitor' = [at |-> "visit", timers_copy |-> Tail(monitor.timers_copy)]
    /\ room_timers_lock' = ""
    /\ UNCHANGED polled

\* The loop is over: time.sleep(POLL_SECONDS).
MonitorSleep ==
    /\ monitor.at = "visit"
    /\ monitor.timers_copy = <<>>
    /\ monitor' = MonitorAsleep
    /\ polled' = TRUE
    /\ MonitorMoves("timers_sleep", NoRoom)
    /\ UNCHANGED <<room_timers, room_timers_lock>>

\* datetime.utcnow() moves on.
Tick ==
    /\ polled
    /\ now < MaxTicks * TickSeconds
    /\ now' = now + TickSeconds
    /\ polled' = FALSE
    /\ emits' = <<>>
    /\ dbops' = <<>>
    /\ last' = Op("tick", "", NoRoom, "")
    /\ UNCHANGED <<connected_users, sid_to_user, sio_rooms, online_users, room_timers,
                   whiteboards, perm_call, others>>

(***************************************************************************)
(* Group streaks.  Days are counted from day 0; a document stores the day  *)
(* as the ISO string of the date.  The created_at and updated_at stamps of *)
(* the document are left out: nothing reads them.                          *)
(***************************************************************************)
GROUP_STREAK_MIN_PERCENT_TENTHS == 2

GROUP_STREAK_MIN_ABSOLUTE == 2

GROUP_STREAK_MAX_GAP_DAYS == 7

\* A Python int where None may stand as well.
INT(n) == [t |-> "int", v |-> n]

\* date.isoformat() and date.fromisoformat().
isoformat(day) == [t |-> "iso", v |-> day]

fromisoformat(text) == text.v

\* round(total_members * min_percent) for a percentage given in tenths: the
\* nearest integer (2 * total / 10 is never half-way between two integers).
RoundTenths(total) == (GROUP_STREAK_MIN_PERCENT_TENTHS * total + 5) \div 10

Max(a, b) == IF a >= b THEN a ELSE b

\* The number of active users a group needs on a day.
StreakThreshold(gs, total_members) ==
    IF gs # None /\ gs.threshold.t # "none" THEN gs.threshold.v
    ELSE Max(GROUP_STREAK_MIN_ABSOLUTE, Max(1, RoundTenths(total_members)))

\* days_since: None when last_active_day is missing.
DaysSince(gs, today) ==
    IF gs.last_active_day.t = "none" THEN None
    ELSE INT(today - fromisoformat(gs.last_active_day))

\* A mutation of the gap test: a gap of exactly the allowed length breaks
\* the streak.
WithinGapStrict(days_since) ==
    days_since.t # "none" /\ days_since.v < GROUP_STREAK_MAX_GAP_DAYS

WithinGap(days_since) ==
    days_since.t # "none" /\ days_since.v <= GROUP_STREAK_MAX_GAP_DAYS

\* A mutation of the inserted document: the first active day is not counted.
FirstStreakDocZero(group_id, today) ==
    [group_id |-> group_id, threshold |-> None, last_active_day |-> isoformat(today),
     streak_count |-> 0, min_percent |-> None]

\* The document the checker inserts on a group's first active day.
FirstStreakDoc(group_id, today) ==
    [group_id |-> group_id, threshold |-> None, last_active_day |-> isoformat(today),
     streak_count |-> 1, min_percent |-> None]

\* A mutation of the pass: a day below the threshold breaks a streak at once,
\* whatever the gap.
StreakAfterCheckMissResets(gs, total_members, senders, today) ==
    IF Cardinality(senders) >= StreakThreshold(gs, total_members)
    THEN IF gs = None THEN FirstStreakDoc(group._id, today)
         ELSE IF gs.last_active_day = isoformat(today) THEN gs
         ELSE IF WithinGap(DaysSince(gs, today))
         THEN [gs EXCEPT !.streak_count = @ + 1, !.last_active_day = isoformat(today)]
         ELSE [gs EXCEPT !.streak_count = 1, !.last_active_day = isoformat(today)]
    ELSE IF gs # None /\ gs.streak_count > 0
         THEN [gs EXCEPT !.streak_count = 0, !.last_active_day = None]
         ELSE gs

\* One pass of check_group_streaks over the group; senders are the distinct
\* user ids of the group's messages of the trailing 24 hours.
StreakAfterCheck(gs, total_members, senders, today) ==
    IF Cardinality(senders) >= StreakThreshold(gs, total_members)
    THEN IF gs = None THEN FirstStreakDoc(group._id, today)
         ELSE IF gs.last_active_day = isoformat(today) THEN gs
         ELSE IF WithinGap(DaysSince(gs, today))
         THEN [gs EXCEPT !.streak_count = @ + 1, !.last_active_day = isoformat(today)]
         ELSE [gs EXCEPT !.streak_count = 1, !.last_active_day = isoformat(today)]
    ELSE IF gs # None /\ gs.streak_count > 0 /\ ~WithinGap(DaysSince(gs, today))
         THEN [gs EXCEPT !.streak_count = 0, !.last_active_day = None]
         ELSE gs

CheckGroupStreaks(senders) ==
    /\ group_streaks' =
           IF group = None \/ Len(group.members) = 0
           THEN group_streaks
           ELSE [group_streaks EXCEPT
                    !.doc = StreakAfterCheck(@, Len(group.members), senders,
                                             group_streaks.today)]
    /\ emits' = <<>>
    /\ dbops' = <<>>
    /\ last' = Op("check_group_streaks", "", NoRoom, senders)
    /\ UNCHANGED <<connected_users, sid_to_user, sio_rooms, online_users, room_timers,
                   whiteboards, now, polled, perm_call, group, livekit, inflight, warnings, media, draw_log, locking, registering, messages>>

\* POST /api/groups/<group_id>/streak/config with a threshold: the owner sets
\* the group's own threshold; the document is created when there is none.
UpdateStreakConfig(user_id, threshold) ==
    /\ group_streaks' =
           IF group = None \/ Str(Get(group, "owner_id", None)) # STR(user_id) \/ threshold < 1
           THEN group_streaks
           ELSE IF group_streaks.doc # None
           THEN [group_streaks EXCEPT !.doc.threshold = INT(threshold)]
           ELSE [group_streaks EXCEPT
                    !.doc = [group_id |-> group._id, threshold |-> INT(threshold),
                             last_active_day |-> None, streak_count |-> 0,
                             min_percent |-> None]]
    /\ emits' = <<>>
    /\ dbops' = <<>>
    /\ last' = Op("update_streak_config", "", NoRoom, user_id)
    /\ UNCHANGED <<connected_users, sid_to_user, sio_rooms, online_users, room_timers,
                   whiteboards, now, polled, perm_call, group, livekit, inflight, warnings, media, draw_log, locking, registering, messages>>

\* The calendar moves on by some days.
NextDay(days) ==
    /\ group_streaks.today + days <= MaxDay
    /\ group_streaks' = [group_streaks EXCEPT !.today = @ + days]
    /\ emits' = <<>>
    /\ dbops' = <<>>
    /\ last' = Op("next_day", "", NoRoom, "")
    /\ UNCHANGED <<connected_users, sid_to_user, sio_rooms, online_users, room_timers,
                   whiteboards, now, polled, perm_call, group, livekit, inflight, warnings, media, draw_log, locking, registering, messages>>

(***************************************************************************)
(* Messages and the checker's window.  POST /api/messages stores a message *)
(* of a member with created_at = utcnow(); a pass of check_group_streaks    *)
(* at time now reads the messages with created_at > now - 1 day and takes  *)
(* now.date() as today.                                                    *)
(***************************************************************************)
\* timedelta(days=1), in seconds.
DAY_SECONDS == 86400

\* The clock of the streak scenario stops after this many days.
MaxStreakDays == 2

\* Message.create_message_doc(content, user_id, channel_id, group_id)
create_message_doc(user_id, group_id, created_at) ==
    [user_id |-> OID(user_id), group_id |-> group_id, created_at |-> created_at]

\* now.date(), as a day number.
DateOf(at) == at \div DAY_SECONDS

SendMessage(user_id) ==
    /\ messages' =
           IF group = None \/ OID(user_id) \notin Elems(Get(group, "members", <<>>))
           THEN messages
           ELSE messages \cup {create_message_doc(user_id, group._id, now)}
    /\ emits' = <<>>
    /\ dbops' = <<>>
    /\ last' = Op("send_message", "", NoRoom, user_id)
    /\ UNCHANGED <<connected_users, sid_to_user, sio_rooms, online_users, room_timers,
                   whiteboards, now, polled, perm_call, group, group_streaks, livekit,
                   inflight, warnings, media, draw_log, locking, registering>>

\* active_user_ids: the distinct senders of the group's messages created
\* after start_window = at - 1 day.
ActiveUserIds(msgs, grp, at) ==
    {Str(m.user_id) : m \in {x \in msgs : /\ x.group_id = grp._id
                                          /\ x.created_at > at - DAY_SECONDS}}

\* One pass of the checker at the time of the clock.
CheckGroupStreaksNow ==
    /\ group # None
    /\ group_streaks.today = DateOf(now)
    /\ CheckGroupStreaks(ActiveUserIds(messages, group, now))

\* The clock moves on; the date follows it.
ClockAdvances(seconds) ==
    /\ now + seconds <= MaxStreakDays * DAY_SECONDS
    /\ now' = now + seconds
    /\ group_streaks' = [group_streaks EXCEPT !.today = DateOf(now + seconds)]
    /\ emits' = <<>>
    /\ dbops' = <<>>
    /\ last' = Op("clock", "", NoRoom, "")
    /\ UNCHANGED <<connected_users, sid_to_user, sio_rooms, online_users, room_timers,
                   whiteboards, polled, perm_call, group, livekit, inflight, warnings,
                   media, draw_log, locking, registering, messages>>

(***************************************************************************)
(* POST /api/whiteboards/<wb_id>/livekit-token, and the media server's     *)
(* room: holders of a token connect to it and leave it, as do users        *)
(* outside the model, who are counted.                                     *)
(***************************************************************************)
\* len(participants) of the media room.
Occupancy(m) == Cardinality(m.present) + m.others

\* The participant-limit block: it builds a LiveKitService() and reads
\* livekit_service.lkapi.room, which raises on the None the constructor
\* leaves in lkapi; the except clause logs it and the request goes on.
CapRefuses(service, m, user_id) ==
    /\ service.lkapi # None
    /\ user_id \notin m.present
    /\ Occupancy(m) >= MAX_PARTICIPANTS_PER_ROOM

\* create_access_token signs with the keys of the process environment
\* (configured) or raises ValueError when they are not set.
GetLivekitToken(user_id, wb_id, configured) ==
    LET status ==
            IF ~IsValidHex(wb_id) THEN 400
            ELSE IF ~WbExists(whiteboards, wb_id) THEN 404
            ELSE IF ~Get(whiteboards[wb_id], "is_active", TRUE) THEN 410
            ELSE IF user_id \notin Users THEN 404
            ELSE IF CapRefuses(NoMedia, media, user_id) THEN 429
            ELSE IF configured THEN 200
            ELSE 503
    IN  /\ media' = IF status = 200 THEN [media EXCEPT !.tokens = @ \cup {user_id}] ELSE media
        /\ emits' = <<Ev("response", {}, user_id, status)>>
        /\ dbops' = <<>>
        /\ last' = Op("get_livekit_token", "", WbRoom(wb_id), user_id)
        /\ UNCHANGED <<connected_users, sid_to_user, sio_rooms, online_users, room_timers,
                       whiteboards, now, polled, perm_call, group, group_streaks, livekit,
                       inflight, warnings, draw_log, locking, registering, messages>>

\* The media server admits the holder of a token, or a user outside the model.
MediaConnect(user_id) ==
    /\ user_id \in media.tokens
    /\ media' = [media EXCEPT !.present = @ \cup {user_id}]
    /\ emits' = <<>>
    /\ dbops' = <<>>
    /\ last' = Op("media_connect", "", NoRoom, user_id)
    /\ UNCHANGED <<connected_users, sid_to_user, sio_rooms, online_users, room_timers,
                   whiteboards, now, polled, perm_call, group, group_streaks, livekit,
                   inflight, warnings, draw_log, locking, registering, messages>>

MediaDisconnect(user_id) ==
    /\ user_id \in media.present
    /\ media' = [media EXCEPT !.present = @ \ {user_id}]
    /\ emits' = <<>>
    /\ dbops' = <<>>
    /\ last' = Op("media_disconnect", "", NoRoom, user_id)
    /\ UNCHANGED <<connected_users, sid_to_user, sio_rooms, online_users, room_timers,
                   whiteboards, now, polled, perm_call, group, group_streaks, livekit,
                   inflight, warnings, draw_log, locking, registering, messages>>

OtherConnects ==
    /\ media.others < MAX_PARTICIPANTS_PER_ROOM
    /\ media' = [media EXCEPT !.others = @ + 1]
    /\ emits' = <<>>
    /\ dbops' = <<>>
    /\ last' = Op("media_connect", "", NoRoom, "other")
    /\ UNCHANGED <<connected_users, sid_to_user, sio_rooms, online_users, room_timers,
                   whiteboards, now, polled, perm_call, group, group_streaks, livekit,
                   inflight, warnings, draw_log, locking, registering, messages>>

OtherDisconnects ==
    /\ media.others > 0
    /\ media' = [media EXCEPT !.others = @ - 1]
    /\ emits' = <<>>
    /\ dbops' = <<>>
    /\ last' = Op("media_disconnect", "", NoRoom, "other")
    /\ UNCHANGED <<connected_users, sid_to_user, sio_rooms, online_users, room_timers,
                   whiteboards, now, polled, perm_call, group, group_streaks, livekit,
                   inflight, warnings, draw_log, locking, registering, messages>>

(***************************************************************************)
(* whiteboard_draw handled concurrently: the server runs each event's      *)
(* handler in a task of its own, and a handler can be overtaken where it   *)
(* waits for the document store or the transport: after it has read the    *)
(* session and decided, and after it has emitted.                          *)
(***************************************************************************)
\* The handler starts: it reads the binding and the session and decides.
DrawReceived(sid, room, drawing_data) ==
    LET uid == BoundUser(sid_to_user, sid)
        goes_on == /\ room # NoRoom /\ drawing_data # NoPayload /\ uid # ""
                   /\ DrawAllowed(whiteboards, room, uid)
    IN  /\ sid \notin DOMAIN inflight
        /\ Len(draw_log.received) < MaxDraw
        /\ inflight' = IF goes_on
                       THEN DictSet(inflight, sid,
                                    [drawing_data |-> drawing_data, emitted |-> FALSE,
                                     room |-> room, uid |-> uid])
                       ELSE inflight
        /\ draw_log' = IF goes_on
                       THEN [draw_log EXCEPT !.received = Append(@, drawing_data)]
                       ELSE draw_log
        /\ emits' = <<>>
        /\ dbops' = <<>>
        /\ last' = Op("whiteboard_draw_received", sid, room, drawing_data)
        /\ UNCHANGED <<connected_users, sid_to_user, sio_rooms, online_users, room_timers,
                       whiteboards, now, polled, perm_call, group, group_streaks, livekit,
                       warnings, media, locking, registering, messages>>

\* The handler broadcasts draw_update.
DrawEmitted(sid) ==
    /\ sid \in DOMAIN inflight
    /\ ~inflight[sid].emitted
    /\ inflight' = [inflight EXCEPT ![sid].emitted = TRUE]
    /\ emits' = <<Ev("draw_update", Recipients(sio_rooms, inflight[sid].room, {sid}),
                     inflight[sid].uid, inflight[sid].drawing_data)>>
    /\ draw_log' = [draw_log EXCEPT !.emitted = Append(@, inflight[sid].drawing_data)]
    /\ dbops' = <<>>
    /\ last' = Op("whiteboard_draw_emitted", sid, inflight[sid].room,
                  inflight[sid].drawing_data)
    /\ UNCHANGED <<connected_users, sid_to_user, sio_rooms, online_users, room_timers,
                   whiteboards, now, polled, perm_call, group, group_streaks, livekit,
                   warnings, media, locking, registering, messages>>

\* The handler appends the payload to drawing_data and returns.
DrawPersisted(sid) ==
    /\ sid \in DOMAIN inflight
    /\ inflight[sid].emitted
    /\ LET room == inflight[sid].room
           persists == room.kind = "whiteboard" /\ is_valid_object_id(room.id)
       IN  /\ whiteboards' =
                  IF persists
                  THEN push_to_array(whiteboards, room.id, "drawing_data",
                                     inflight[sid].drawing_data)
                  ELSE whiteboards
           /\ dbops' = IF persists
                       THEN <<DbOp("push", room.id, "drawing_data",
                                   inflight[sid].drawing_data)>>
                       ELSE <<>>
           /\ last' = Op("whiteboard_draw_persisted", sid, room, inflight[sid].drawing_data)
    /\ inflight' = DictDel(inflight, sid)
    /\ emits' = <<>>
    /\ UNCHANGED <<connected_users, sid_to_user, sio_rooms, online_users, room_timers,
                   now, polled, perm_call, group, group_streaks, livekit, warnings, media,
                   draw_log, locking, registering, messages>>

(***************************************************************************)
(* Drawing on a session: the owner creates it, connections join, the       *)
(* creator grants and revokes can_draw, and anyone sends draw events.      *)
(***************************************************************************)
\* The group's owner opens the one session of the scenario.
OwnerOpensSession ==
    /\ whiteboards = EmptyDict
    /\ group # None
    /\ CreateWhiteboardSession(group.owner_id.v)

DrawRooms == {WbRoom("w1"), WbRoom(BadId)}

\* A connection of the creator and the connection of the other member.
EditSids == {"s1", "s3"}

NextDraw ==
    \/ \E sid \in Sids : RegisterConnection(sid, SidOwner[sid])
    \/ OwnerOpensSession
    \/ \E sid \in Sids : OnJoinRoom(sid, WbRoom("w1"), FALSE)
    \/ \E sid \in EditSids, target_user \in {"u2", BadId} :
           HandleGrantDraw(sid, WbRoom("w1"), target_user)
    \/ \E sid \in EditSids, target_user \in {"u2", BadId} :
           HandleRevokeDraw(sid, WbRoom("w1"), target_user)
    \/ \E sid \in Sids, room \in DrawRooms, drawing_data \in Payloads \cup {NoPayload} :
           HandleWhiteboardDraw(sid, room, drawing_data)
    \/ \E sid \in Sids, room \in DrawRooms : HandleUndoAction(sid, room)

SpecDraw == Init /\ [][NextDraw]_vars

(***************************************************************************)
(* Joining a session over its lifetime: created, joined, ended by its      *)
(* creator or by the timer monitor at the hard limit, joined again.        *)
(***************************************************************************)
NextJoin ==
    \/ \E sid \in Sids : RegisterConnection(sid, SidOwner[sid])
    \/ OwnerOpensSession
    \/ \E sid \in Sids : OnJoinRoom(sid, WbRoom("w1"), FALSE)
    \/ \E user_id \in Users : EndWhiteboard(user_id, "w1")
    \/ Tick
    \/ CheckSessionTimers

SpecJoin == Init /\ [][NextJoin]_vars

(***************************************************************************)
(* The timer monitor over a session's life: connections join, the clock    *)
(* advances, the monitor polls, and a speak grant starts a media           *)
(* permission task that runs in the background.                            *)
(***************************************************************************)
NextTimer ==
    \/ \E sid \in EditSids : RegisterConnection(sid, SidOwner[sid])
    \/ OwnerOpensSession
    \/ \E sid \in EditSids : OnJoinRoom(sid, WbRoom("w1"), FALSE)
    \/ HandleGrantSpeak("s1", WbRoom("w1"), "u2")
    \/ RunUpdateLkPermissions
    \/ Tick
    \/ CheckSessionTimers

SpecTimer == Init /\ [][NextTimer]_vars

(***************************************************************************)
(* The streak checker on one group of 2, 10 or 13 members (or none), over  *)
(* days on which none to three users sent messages.                        *)
(***************************************************************************)
MemberNames == <<"u1", "u2", "m3", "m4", "m5", "m6", "m7", "m8", "m9", "m10", "m11",
                 "m12", "m13">>

GroupOf(n) == [Group EXCEPT !.members = [i \in 1..n |-> OID(MemberNames[i])]]

StreakSizes == {0, 2, 10, Len(MemberNames)}

SenderSets == {{}, {"u1"}, {"u1", "u2"}, {"u1", "u2", "m3"}}

DayJumps == {1, GROUP_STREAK_MAX_GAP_DAYS + 1}

StreakOverrides == {1, 3}

InitStreak ==
    /\ connected_users = EmptyDict
    /\ sid_to_user = EmptyDict
    /\ sio_rooms = [r \in Rooms |-> {}]
    /\ online_users = EmptyDict
    /\ room_timers = EmptyDict
    /\ whiteboards = EmptyDict
    /\ now = 0
    /\ polled = TRUE
    /\ emits = <<>>
    /\ dbops = <<>>
    /\ last = Op("init", "", NoRoom, "")
    /\ perm_call = PermPending([created_by |-> None], None)
    /\ group \in {GroupOf(n) : n \in StreakSizes}
    /\ group_streaks = NoStreaks
    /\ livekit = NoMedia
    /\ inflight = EmptyDict
    /\ warnings = [r \in Rooms |-> 0]
    /\ media = NoMediaRoom
    /\ draw_log = NoDraws
    /\ room_timers_lock = ""
    /\ monitor = MonitorAsleep
    /\ joining = NoJoining
    /\ connected_users_lock = ""
    /\ handlers = NoHandlers
    /\ messages = {}

NextStreak ==
    \/ \E senders \in SenderSets : CheckGroupStreaks(senders)
    \/ \E threshold \in StreakOverrides : UpdateStreakConfig("u1", threshold)
    \/ \E days \in DayJumps : NextDay(days)

SpecStreak == InitStreak /\ [][NextStreak]_vars

(***************************************************************************)
(* Streaks from messages: the two members post at any time of the day, the *)
(* checker passes at any time, and the clock moves in half days.           *)
(***************************************************************************)
NextCount ==
    \/ \E user_id \in Users : SendMessage(user_id)
    \/ CheckGroupStreaksNow
    \/ ClockAdvances(DAY_SECONDS \div 2)

SpecCount == Init /\ [][NextCount]_vars

(***************************************************************************)
(* Connections with and without a binding: every connection presents a     *)
(* token at connect; the creator's first connection is bound, as an        *)
(* accepted connect leaves it; it and the connection of the other member,  *)
(* which is not bound, send every kind of event.                           *)
(***************************************************************************)
AuthRooms == {WbRoom("w1"), GroupRoom}

NextAuth ==
    \/ \E sid \in EditSids, token \in Tokens : HandleConnect(sid, token)
    \/ RegisterConnection("s1", SidOwner["s1"])
    \/ OwnerOpensSession
    \/ \E sid \in EditSids, room \in AuthRooms :
           \/ OnJoinRoom(sid, room, FALSE)
           \/ HandleMessage(sid, room, "p1")
           \/ HandleTyping(sid, room, TRUE)
           \/ HandleWhiteboardDraw(sid, room, "p1")
           \/ HandleUndoAction(sid, room)
           \/ HandleClearBoard(sid, room)
           \/ HandleRaiseHand(sid, room)
           \/ HandleClearHand(sid, room)
    \/ \E sid \in EditSids :
           \/ HandleGrantDraw(sid, WbRoom("w1"), "u2")
           \/ HandleRevokeDraw(sid, WbRoom("w1"), "u2")
           \/ HandleGrantSpeak(sid, WbRoom("w1"), "u2")
           \/ HandleRevokeSpeak(sid, WbRoom("w1"), "u2")
           \/ HandleGrantScreenShare(sid, WbRoom("w1"), "u2")
           \/ HandleRevokeScreenShare(sid, WbRoom("w1"), "u2")

SpecAuth == Init /\ [][NextAuth]_vars

(***************************************************************************)
(* Tokens for the media room of session w1 while users connect to the      *)
(* media server and leave it, and the creator ends the session.            *)
(***************************************************************************)
NextToken ==
    \/ OwnerOpensSession
    \/ EndWhiteboard("u1", "w1")
    \/ \E user_id \in Users, wb_id \in {"w1", BadId}, configured \in BOOLEAN :
           GetLivekitToken(user_id, wb_id, configured)
    \/ \E user_id \in Users : MediaConnect(user_id)
    \/ \E user_id \in Users : MediaDisconnect(user_id)
    \/ OtherConnects
    \/ OtherDisconnects

SpecToken == Init /\ [][NextToken]_vars

(***************************************************************************)
(* Draw events of two connections on one session, handled concurrently.    *)
(***************************************************************************)
\* A draw event for the room of the session, once the session is open.
DrawOnOpenSession(sid, drawing_data) ==
    /\ WbExists(whiteboards, "w1")
    /\ DrawReceived(sid, WbRoom("w1"), drawing_data)

NextOrder ==
    \/ \E sid \in EditSids : RegisterConnection(sid, SidOwner[sid])
    \/ OwnerOpensSession
    \/ \E sid \in EditSids, drawing_data \in Payloads : DrawOnOpenSession(sid, drawing_data)
    \/ \E sid \in EditSids : DrawEmitted(sid)
    \/ \E sid \in EditSids : DrawPersisted(sid)

SpecOrder == Init /\ [][NextOrder]_vars

(***************************************************************************)
(* Revocation of speak and screen share while connections register, join   *)
(* and leave the session's room and the group's room, and disconnect; a    *)
(* client that leaves a room sends its own user id.                        *)
(***************************************************************************)
ForceRooms == {GroupRoom, WbRoom(BadId)}

\* The second tab of u1 and the connection of u2 move between rooms.
ForceSids == {"s2", "s3"}

NextForce ==
    \/ \E sid \in Sids : RegisterConnection(sid, SidOwner[sid])
    \/ OwnerOpensSession
    \/ \E sid \in ForceSids, room \in ForceRooms : OnJoinRoom(sid, room, FALSE)
    \/ \E sid \in ForceSids : OnLeaveRoom(sid, GroupRoom, SidOwner[sid])
    \/ \E sid \in ForceSids : HandleDisconnect(sid)
    \/ \E sid \in EditSids, target_user \in Users :
           HandleRevokeSpeak(sid, WbRoom("w1"), target_user)
    \/ \E target_user \in Users : HandleRevokeScreenShare("s1", WbRoom("w1"), target_user)

SpecForce == Init /\ [][NextForce]_vars

(***************************************************************************)
(* The six permission events on one session, sent by a connection of the   *)
(* creator and by the connection of the other member, while members leave  *)
(* the group.                                                              *)
(***************************************************************************)
GrantTargets == {"u2", BadId}

NextGrant ==
    \/ \E sid \in EditSids : RegisterConnection(sid, SidOwner[sid])
    \/ OwnerOpensSession
    \/ \E user_id \in Users : LeaveGroup(user_id)
    \/ OnJoinRoom("s3", WbRoom("w1"), FALSE)
    \/ \E sid \in EditSids, target_user \in GrantTargets :
           \/ HandleGrantDraw(sid, WbRoom("w1"), target_user)
           \/ HandleRevokeDraw(sid, WbRoom("w1"), target_user)
           \/ HandleGrantSpeak(sid, WbRoom("w1"), target_user)
           \/ HandleRevokeSpeak(sid, WbRoom("w1"), target_user)
           \/ HandleGrantScreenShare(sid, WbRoom("w1"), target_user)
           \/ HandleRevokeScreenShare(sid, WbRoom("w1"), target_user)

SpecGrant == Init /\ [][NextGrant]_vars

(***************************************************************************)
(* The connect and disconnect handlers of the three connections, each in   *)
(* its own thread and step by step around connected_users_lock, on a       *)
(* session whose room the connections join.                                *)
(***************************************************************************)
NextRace ==
    \/ \E sid \in Sids : ConnectAcquire(sid, SidOwner[sid])
    \/ \E sid \in Sids : ConnectUnderLock(sid)
    \/ OwnerOpensSession
    \/ \E sid \in Sids : OnJoinRoom(sid, WbRoom("w1"), FALSE)
    \/ \E sid \in Sids : DisconnectRead(sid)
    \/ \E sid \in Sids : DisconnectAcquire(sid)
    \/ \E sid \in Sids : DisconnectUnderLock(sid)

SpecRace == Init /\ [][NextRace]_vars

(***************************************************************************)
(* The two tabs of the creator grant and revoke can_draw on the session,   *)
(* each handler in its own thread, in two steps or in one.                 *)
(***************************************************************************)
CreatorSids == {"s1", "s2"}

NextEdit ==
    \/ \E sid \in CreatorSids : RegisterConnection(sid, SidOwner[sid])
    \/ OwnerOpensSession
    \/ \E op \in EditOps, sid \in CreatorSids, target_user \in Users :
           EditRead(op, sid, WbRoom("w1"), target_user)
    \/ \E sid \in CreatorSids : EditWrite(sid)
    \/ HandleGrantSpeak("s1", WbRoom("w1"), "u2")
    \/ HandleRevokeSpeak("s1", WbRoom("w1"), "u2")

SpecEdit == Init /\ [][NextEdit]_vars

(***************************************************************************)
(* A session that its creator may end while the clock advances and the     *)
(* monitor polls.                                                          *)
(***************************************************************************)
NextEndOnce ==
    \/ \E sid \in EditSids : RegisterConnection(sid, SidOwner[sid])
    \/ OwnerOpensSession
    \/ \E sid \in EditSids : OnJoinRoom(sid, WbRoom("w1"), FALSE)
    \/ EndWhiteboard("u1", "w1")
    \/ Tick
    \/ CheckSessionTimers

SpecEndOnce == Init /\ [][NextEndOnce]_vars

(***************************************************************************)
(* The defaults of a new session: members leave the group, the owner of    *)
(* the moment opens the session, connections draw on it and ask for the    *)
(* screen-share right.                                                     *)
(***************************************************************************)
NextCreate ==
    \/ \E sid \in Sids : RegisterConnection(sid, SidOwner[sid])
    \/ \E user_id \in Users : LeaveGroup(user_id)
    \/ OwnerOpensSession
    \/ \E sid \in Sids, target_user \in Users :
           HandleGrantScreenShare(sid, WbRoom("w1"), target_user)
    \/ \E sid \in Sids, drawing_data \in Payloads :
           HandleWhiteboardDraw(sid, WbRoom("w1"), drawing_data)

SpecCreate == Init /\ [][NextCreate]_vars

(***************************************************************************)
(* Members join the room of the session, and leave it with any user's id   *)
(* in the payload.                                                         *)
(***************************************************************************)
NextSpoof ==
    \/ \E sid \in EditSids : RegisterConnection(sid, SidOwner[sid])
    \/ OwnerOpensSession
    \/ \E sid \in EditSids : OnJoinRoom(sid, WbRoom("w1"), FALSE)
    \/ \E sid \in EditSids, user_id \in Users : OnLeaveRoom(sid, WbRoom("w1"), user_id)

SpecSpoof == Init /\ [][NextSpoof]_vars

(***************************************************************************)
(* The monitor's thread and the threads of two join_room handlers on the   *)
(* room of the session, each step by step around room_timers_lock.         *)
(***************************************************************************)
NextLock ==
    \/ \E sid \in EditSids : RegisterConnection(sid, SidOwner[sid])
    \/ OwnerOpensSession
    \/ \E sid \in EditSids : JoinAcquire(sid, WbRoom("w1"))
    \/ \E sid \in EditSids : JoinUnderLock(sid)
    \/ Tick
    \/ MonitorAcquire
    \/ MonitorSnapshot
    \/ MonitorVisit
    \/ MonitorDelete
    \/ MonitorWarnAcquire
    \/ MonitorSetWarned
    \/ MonitorSleep

SpecLock == Init /\ [][NextLock]_vars

(***************************************************************************)
(* Joining and leaving the room of a session and the group's room; a       *)
(* connection leaves in its own user's name.                               *)
(***************************************************************************)
LeaveRooms == {WbRoom("w1"), GroupRoom}

NextLeave ==
    \/ \E sid \in EditSids : RegisterConnection(sid, SidOwner[sid])
    \/ OwnerOpensSession
    \/ \E sid \in EditSids, room \in LeaveRooms : OnJoinRoom(sid, room, FALSE)
    \/ \E sid \in EditSids, room \in LeaveRooms : OnLeaveRoom(sid, room, SidOwner[sid])

SpecLeave == Init /\ [][NextLeave]_vars

(***************************************************************************)
(* Connections join the room of the session and the group's room, and      *)
(* disconnect.                                                             *)
(***************************************************************************)
NextOnline ==
    \/ \E sid \in Sids : RegisterConnection(sid, SidOwner[sid])
    \/ OwnerOpensSession
    \/ \E sid \in Sids, room \in LeaveRooms : OnJoinRoom(sid, room, FALSE)
    \/ \E sid \in Sids : HandleDisconnect(sid)

SpecOnline == Init /\ [][NextOnline]_vars

(***************************************************************************)
(* The timer monitor over a session's life while the document store may be *)
(* down during a pass.                                                     *)
(***************************************************************************)
NextOutage ==
    \/ RegisterConnection("s1", SidOwner["s1"])
    \/ OwnerOpensSession
    \/ OnJoinRoom("s1", WbRoom("w1"), FALSE)
    \/ HandleGrantSpeak("s1", WbRoom("w1"), "u2")
    \/ RunUpdateLkPermissions
    \/ Tick
    \/ CheckSessionTimers
    \/ CheckSessionTimersDbDown

SpecOutage == Init /\ [][NextOutage]_vars

(***************************************************************************)
(* join_room for whiteboard rooms whose id is malformed, names no session, *)
(* or names the one session that was opened.                               *)
(***************************************************************************)
JoinErrorRooms == {WbRoom(BadId), WbRoom("w2"), WbRoom("w1")}

NextJoinError ==
    \/ \E sid \in EditSids : RegisterConnection(sid, SidOwner[sid])
    \/ OwnerOpensSession
    \/ \E sid \in EditSids, room \in JoinErrorRooms, transient \in BOOLEAN :
           OnJoinRoom(sid, room, transient)

SpecJoinError == Init /\ [][NextJoinError]_vars

(***************************************************************************)
(* In-session events on a session its creator may have ended: draw, undo,  *)
(* clear, raise and clear hand, and grants and revocations.                *)
(***************************************************************************)
NextEnded ==
    \/ \E sid \in EditSids : RegisterConnection(sid, SidOwner[sid])
    \/ OwnerOpensSession
    \/ EndWhiteboard("u1", "w1")
    \/ \E sid \in EditSids : HandleWhiteboardDraw(sid, WbRoom("w1"), "p1")
    \/ \E sid \in EditSids : HandleUndoAction(sid, WbRoom("w1"))
    \/ \E sid \in EditSids : HandleClearBoard(sid, WbRoom("w1"))
    \/ HandleRaiseHand("s3", WbRoom("w1"))
    \/ HandleClearHand("s3", WbRoom("w1"))
    \/ HandleGrantDraw("s1", WbRoom("w1"), "u2")
    \/ HandleRevokeDraw("s1", WbRoom("w1"), "u2")
    \/ HandleGrantSpeak("s1", WbRoom("w1"), "u2")
    \/ HandleRevokeSpeak("s1", WbRoom("w1"), "u2")

SpecEnded == Init /\ [][NextEnded]_vars

(***************************************************************************)
(* The bridge to the media provider: the creator grants and revokes speak  *)
(* and screen share for the other member, and the permission tasks the     *)
(* handlers start run in the background, in any order, or wait.            *)
(***************************************************************************)
NextBridge ==
    \/ RegisterConnection("s1", SidOwner["s1"])
    \/ OwnerOpensSession
    \/ HandleGrantSpeak("s1", WbRoom("w1"), "u2")
    \/ HandleRevokeSpeak("s1", WbRoom("w1"), "u2")
    \/ HandleGrantScreenShare("s1", WbRoom("w1"), "u2")
    \/ HandleRevokeScreenShare("s1", WbRoom("w1"), "u2")
    \/ RunUpdateLkPermissions

SpecBridge == Init /\ [][NextBridge]_vars

(***************************************************************************)
(* The registry, the presence map and the participants under connect,      *)
(* join, leave and disconnect.                                             *)
(***************************************************************************)
PresenceRooms == {WbRoom(id) : id \in WbIds}

NextPresence ==
    \/ \E sid \in Sids, token \in Tokens : HandleConnect(sid, token)
    \/ \E sid \in Sids : RegisterConnection(sid, SidOwner[sid])
    \/ \E user_id \in Users : CreateWhiteboardSession(user_id)
    \/ \E sid \in Sids, room \in PresenceRooms : OnJoinRoom(sid, room, FALSE)
    \/ \E sid \in Sids : HandleDisconnect(sid)

SpecPresence == Init /\ [][NextPresence]_vars

(***************************************************************************)
(* Disconnects of users who joined several sessions, where a broadcast of  *)
(* the cleanup may raise.                                                  *)
(***************************************************************************)
NextPartial ==
    \/ \E sid \in EditSids : RegisterConnection(sid, SidOwner[sid])
    \/ \E user_id \in Users : CreateWhiteboardSession(user_id)
    \/ \E sid \in EditSids, room \in PresenceRooms : OnJoinRoom(sid, room, FALSE)
    \/ \E sid \in EditSids : HandleDisconnect(sid)
    \/ \E sid \in EditSids, k \in 1..Len(WbOrder), raised \in {"online_users", "user_left"} :
           HandleDisconnectEmitRaises(sid, k, raised)

SpecPartial == Init /\ [][NextPartial]_vars

(***************************************************************************)
(* The registry alone under connect, join, leave (with any user id in the  *)
(* payload) and disconnect; no session exists.                             *)
(***************************************************************************)
RegistryRooms == {GroupRoom, WbRoom(BadId)}

NextRegistry ==
    \/ \E sid \in Sids, token \in Tokens : HandleConnect(sid, token)
    \/ \E sid \in Sids : RegisterConnection(sid, SidOwner[sid])
    \/ \E sid \in Sids, room \in RegistryRooms : OnJoinRoom(sid, room, FALSE)
    \/ \E sid \in Sids, room \in RegistryRooms, user_id \in Users \cup {BadId, ""} :
           OnLeaveRoom(sid, room, user_id)
    \/ \E sid \in Sids : HandleDisconnect(sid)

SpecRegistry == Init /\ [][NextRegistry]_vars

(***************************************************************************)
(* The permission calculator on its own: any session document the store    *)
(* may hold (ids all ObjectIds, or all str as in the tests; each list      *)
(* present or missing) and any user id, passed as ObjectId or as str.      *)
(***************************************************************************)
MissingField == <<None>>

PermLists(ty) ==
    {[i \in DOMAIN q |-> [t |-> ty, v |-> q[i]]] : q \in SeqsUpTo(Users, MaxListLen)}
        \cup {MissingField}

PermDoc(cb, d, s, h) ==
    LET fields == {"created_by"}
                    \cup (IF d # MissingField THEN {"can_draw"} ELSE {})
                    \cup (IF s # MissingField THEN {"can_speak"} ELSE {})
                    \cup (IF h # MissingField THEN {"can_share_screen"} ELSE {})
    IN  [k \in fields |-> CASE k = "created_by" -> cb
                            [] k = "can_draw" -> d
                            [] k = "can_speak" -> s
                            [] OTHER -> h]

PermDocs ==
    UNION {{PermDoc([t |-> ty, v |-> c], d, s, h) :
                c \in Users, d \in PermLists(ty), s \in PermLists(ty), h \in PermLists(ty)} :
           ty \in {"oid", "str"}}

PermUserIds == {[t |-> ty, v |-> u] : ty \in {"oid", "str"}, u \in Users}

\* The state before a call: the arguments are any document and any user id.
InitPerm ==
    /\ connected_users = EmptyDict
    /\ sid_to_user = EmptyDict
    /\ sio_rooms = [r \in Rooms |-> {}]
    /\ online_users = EmptyDict
    /\ room_timers = EmptyDict
    /\ whiteboards = EmptyDict
    /\ now = 0
    /\ polled = TRUE
    /\ emits = <<>>
    /\ dbops = <<>>
    /\ last = Op("init", "", NoRoom, "")
    /\ \E wb \in PermDocs, user_id \in PermUserIds : perm_call = PermPending(wb, user_id)
    /\ group = Group
    /\ group_streaks = NoStreaks
    /\ livekit = NoMedia
    /\ inflight = EmptyDict
    /\ warnings = [r \in Rooms |-> 0]
    /\ media = NoMediaRoom
    /\ draw_log = NoDraws
    /\ room_timers_lock = ""
    /\ monitor = MonitorAsleep
    /\ joining = NoJoining
    /\ connected_users_lock = ""
    /\ handlers = NoHandlers
    /\ messages = {}

ComputePermissions ==
    /\ ~perm_call.done
    /\ perm_call' = [perm_call EXCEPT !.done = TRUE,
                       !.result = compute_permissions(perm_call.wb, perm_call.user_id)]
    /\ UNCHANGED <<connected_users, sid_to_user, sio_rooms, online_users, room_timers,
                   whiteboards, now, polled, emits, dbops, last, others>>

NextPerm == ComputePermissions

\* A mutation of the route's grant: the share list is not consulted.
TokenCanPublishSpeakOnly(wb, user_id) ==
    LET is_creator == Str(Get(wb, "created_by", None)) = user_id
    IN  is_creator \/ user_id \in {Str(x) : x \in Elems(Get(wb, "can_speak", <<>>))}

\* The can_publish of the VideoGrant the livekit-token route builds.  user_id
\* is g.user_id, the str of the bearer token, and is compared as it is.
TokenCanPublish(wb, user_id) ==
    LET is_creator == Str(Get(wb, "created_by", None)) = user_id
        can_speak == is_creator
                     \/ user_id \in {Str(x) : x \in Elems(Get(wb, "can_speak", <<>>))}
        can_share_screen == is_creator
                            \/ user_id \in {Str(x) : x \in Elems(Get(wb, "can_share_screen", <<>>))}
    IN  can_speak \/ can_share_screen

\* The route builds the grant of a token for the user and the document of the
\* pending call.
TokenPermissions ==
    /\ emits = <<>>
    /\ perm_call.user_id.t = "str"
    /\ emits' = <<Ev("token_grant", {}, perm_call.user_id.v,
                     TokenCanPublish(perm_call.wb, perm_call.user_id))>>
    /\ last' = Op("get_livekit_token", "", NoRoom, perm_call.user_id.v)
    /\ UNCHANGED <<connected_users, sid_to_user, sio_rooms, online_users, room_timers,
                   whiteboards, now, polled, dbops, perm_call, others>>

\* The token route and the live-update path on the same document and user.
NextPaths ==
    \/ ComputePermissions
    \/ TokenPermissions

SpecPaths == InitPerm /\ [][NextPaths]_vars

SpecPerm == InitPerm /\ [][NextPerm]_vars

\* The identity of the user, whatever Python type carries it.
PermIsCreator == perm_call.wb.created_by.v = perm_call.user_id.v

PermListed(f) ==
    /\ f \in DOMAIN perm_call.wb
    /\ \E i \in DOMAIN perm_call.wb[f] : perm_call.wb[f][i].v = perm_call.user_id.v

\* C1: for every session document S and user U, compute_permissions(S, U)
\* gives can_draw = (U is the creator or U is in can_draw), can_speak = (creator
\* or in can_speak), can_share = (creator or in can_share_screen); each
\* capability depends on its own list only, and the creator has all three
\* whatever the lists hold, missing lists included.
C1_PermissionsFollowOwnList ==
    perm_call.done =>
        /\ perm_call.result.can_draw = (PermIsCreator \/ PermListed("can_draw"))
        /\ perm_call.result.can_speak = (PermIsCreator \/ PermListed("can_speak"))
        /\ perm_call.result.can_share = (PermIsCreator \/ PermListed("can_share_screen"))
        /\ PermIsCreator =>
              /\ perm_call.result.can_draw
              /\ perm_call.result.can_speak
              /\ perm_call.result.can_share

\* A non-creator listed in can_draw alone has been given can_draw and nothing else,
\* on a document that lacks the can_share_screen list.
C1_Witness ==
    /\ perm_call.done
    /\ ~PermIsCreator
    /\ PermListed("can_draw") /\ ~PermListed("can_speak")
    /\ "can_share_screen" \notin DOMAIN perm_call.wb
    /\ perm_call.result.can_draw
    /\ ~perm_call.result.can_speak
    /\ ~perm_call.result.can_share

\* C2: for all sessions S and users U, can_publish of compute_permissions(S, U)
\* equals can_speak OR can_share of the same result; a user with can_draw only
\* has can_publish false.
C2_PublishIsSpeakOrShare ==
    perm_call.done =>
        /\ perm_call.result.can_publish =
              (perm_call.result.can_speak \/ perm_call.result.can_share)
        /\ (~PermIsCreator /\ ~PermListed("can_speak") /\ ~PermListed("can_share_screen"))
              => ~perm_call.result.can_publish

\* A user who can draw but neither speak nor share has been denied can_publish.
C2_Witness ==
    /\ perm_call.done
    /\ perm_call.result.can_draw
    /\ ~perm_call.result.can_speak /\ ~perm_call.result.can_share
    /\ ~perm_call.result.can_publish

(***************************************************************************)
(* Claims about the registry, the participants and the presence map.       *)
(***************************************************************************)
\* The connections bound to a user in sid_to_user.
BoundSids(s2u, u) == {c \in DOMAIN s2u : s2u[c] = u}

\* C5: after any sequence of connect, leave_room (with any client-supplied
\* user_id) and disconnect events, sid_to_user[c] = u exactly when c is in
\* connected_users[u], and connected_users holds no user with an empty set.
C5_RegistryMapsAgree ==
    /\ \A u \in Users \cup {BadId} :
           Get(connected_users, u, {}) = BoundSids(sid_to_user, u)
    /\ \A u \in DOMAIN connected_users : connected_users[u] # {}

\* C6: when a registered connection of a user is unregistered, it leaves
\* sid_to_user; the user's key then holds exactly the connections that remain,
\* and is absent once none remains (so after N registrations and N
\* unregistrations, in any order, the key is gone).
C6_UnregisterLeavesTheRest ==
    [][(last'.op = "disconnect" /\ last'.arg # "")
          => LET rest == BoundSids(sid_to_user, last'.arg) \ {last'.sid}
             IN  /\ last'.sid \notin DOMAIN sid_to_user'
                 /\ BoundSids(sid_to_user', last'.arg) = rest
                 /\ IF rest = {}
                    THEN last'.arg \notin DOMAIN connected_users'
                    ELSE /\ last'.arg \in DOMAIN connected_users'
                         /\ connected_users'[last'.arg] = rest]_vars

\* Both tabs of u1 were registered and both have disconnected: the key is gone
\* while the connection of u2 is still registered.
C6_Witness ==
    /\ last.op = "disconnect" /\ last.arg = "u1"
    /\ "u1" \notin DOMAIN connected_users
    /\ BoundSids(sid_to_user, "u1") = {}
    /\ "u2" \in DOMAIN connected_users

\* The connection is in neither registry map.
Unregistered(sid) ==
    /\ sid \notin DOMAIN sid_to_user
    /\ \A u \in DOMAIN connected_users : sid \notin connected_users[u]

\* C7: registering a (connection id, user) pair that is already registered
\* leaves both registry maps as they are, and a disconnect of a connection id
\* that is not registered changes neither registry map, nor any session's
\* participants, nor any presence map.
C7_ReRegisterAndUnknownDisconnect ==
    [][/\ (/\ last'.op = "register"
           /\ Get(sid_to_user, last'.sid, "") = last'.arg
           /\ last'.sid \in Get(connected_users, last'.arg, {}))
          => (connected_users' = connected_users /\ sid_to_user' = sid_to_user)
       /\ (last'.op = "disconnect" /\ Unregistered(last'.sid))
          => /\ connected_users' = connected_users /\ sid_to_user' = sid_to_user
             /\ whiteboards' = whiteboards
             /\ online_users' = online_users
             /\ emits' = <<>>]_vars

\* A connection that has joined a room (so it was registered) and whose user
\* has a second tab open has been registered again.
C7_Witness ==
    /\ last.op = "register" /\ last.sid = "s1"
    /\ \E r \in Rooms : "s1" \in sio_rooms[r]
    /\ connected_users["u1"] = {"s1", "s2"}
    /\ sid_to_user["s1"] = "u1"

\* C8: a disconnect of a connection whose user still has another registered
\* connection removes that user from no session's participants and from no
\* presence map, and emits no user_left.
C8_OtherTabKeepsPresence ==
    [][(/\ last'.op = "disconnect" /\ last'.arg # ""
        /\ last'.arg \in DOMAIN connected_users')
          => /\ \A id \in DOMAIN whiteboards :
                    OID(last'.arg) \in Elems(whiteboards[id].participants)
                        => OID(last'.arg) \in Elems(whiteboards'[id].participants)
             /\ online_users' = online_users
             /\ \A i \in DOMAIN emits' : emits'[i].event # "user_left"]_vars

\* The whiteboard rooms whose presence map lists the user.
PresentRooms(ou, uid) == {id \in WbIds \cup {BadId} : PresentIn(ou, id, uid)}

EmitCount(es, event) == Cardinality({i \in DOMAIN es : es[i].event = event})

LastDisconnect ==
    /\ last'.op = "disconnect" /\ last'.arg # ""
    /\ last'.arg \notin DOMAIN connected_users'

\* C9: when the last connection of a user disconnects and the user
\* is present in exactly K whiteboard rooms, the handler issues exactly K
\* participant removals and K online_users broadcasts, and the user is then in
\* none of those sessions' participants nor rooms' presence maps.
C9_KRemovalsAndKBroadcasts ==
    [][LastDisconnect
          => LET K == Cardinality(PresentRooms(online_users, last'.arg))
             IN  /\ Len(dbops') = K
                 /\ EmitCount(emits', "online_users") = K
                 /\ \A id \in PresentRooms(online_users, last'.arg) :
                        /\ ~PresentIn(online_users', id, last'.arg)
                        /\ id \in DOMAIN whiteboards
                              => OID(last'.arg) \notin Elems(whiteboards'[id].participants)]_vars

(***************************************************************************)
(* Claims about draw events.                                               *)
(***************************************************************************)
\* The sender of the event being handled, and the session its room names.
DrawSender == Get(sid_to_user, last'.sid, "")

DrawOnSession ==
    /\ last'.op = "whiteboard_draw"
    /\ last'.arg # NoPayload
    /\ last'.room.kind = "whiteboard"
    /\ WbExists(whiteboards, last'.room.id)
    /\ DrawSender # ""

\* The user is the creator of the session or is listed in its can_draw.
MayDraw(wb, uid) ==
    \/ wb.created_by.v = uid
    \/ \E i \in DOMAIN Get(wb, "can_draw", <<>>) : wb.can_draw[i].v = uid

\* C3: on an existing session, a whiteboard_draw event of a bound sender who
\* is neither the creator nor in can_draw produces no draw_update broadcast,
\* leaves drawing_data (and the whole document) unchanged, and emits no error
\* event to the sender: nothing is emitted at all.
C3_DeniedDrawIsDropped ==
    [][(DrawOnSession /\ ~MayDraw(whiteboards[last'.room.id], DrawSender))
          => /\ emits' = <<>>
             /\ dbops' = <<>>
             /\ whiteboards' = whiteboards]_vars

\* The member u2, whose can_draw was revoked, has sent a payload from a
\* connection that sits in the room with a connection of the creator; the
\* history holds an earlier entry and nothing was emitted.
C3_Witness ==
    /\ last.op = "whiteboard_draw" /\ last.sid = "s3" /\ last.arg = "p2"
    /\ last.room = WbRoom("w1")
    /\ Get(sid_to_user, "s3", "") = "u2"
    /\ WbExists(whiteboards, "w1")
    /\ ~MayDraw(whiteboards["w1"], "u2")
    /\ {"s1", "s3"} \subseteq sio_rooms[WbRoom("w1")]
    /\ whiteboards["w1"].drawing_data = <<"p1">>
    /\ emits = <<>>

\* C10: on an existing session, a whiteboard_draw event (with a payload) of a
\* bound sender who is the creator or is in can_draw appends the payload to
\* drawing_data as exactly one new last entry, changes nothing else of the
\* document, and broadcasts exactly one draw_update, to every connection in
\* the room except the sending connection.
C10_AllowedDrawAppendsAndBroadcasts ==
    [][(DrawOnSession /\ MayDraw(whiteboards[last'.room.id], DrawSender))
          => /\ whiteboards' =
                    [whiteboards EXCEPT ![last'.room.id].drawing_data = Append(@, last'.arg)]
             /\ Len(emits') = 1
             /\ emits'[1].event = "draw_update"
             /\ emits'[1].to = sio_rooms[last'.room] \ {last'.sid}
             /\ emits'[1].user_id = DrawSender
             /\ emits'[1].data = last'.arg]_vars

\* The member u2, listed in can_draw, has drawn from a connection that sits in
\* the room with both tabs of the creator: the payload is the new last entry
\* and the broadcast went to the two other connections.
C10_Witness ==
    /\ last.op = "whiteboard_draw" /\ last.sid = "s3" /\ last.arg = "p2"
    /\ last.room = WbRoom("w1")
    /\ Get(sid_to_user, "s3", "") = "u2"
    /\ WbExists(whiteboards, "w1")
    /\ whiteboards["w1"].created_by.v # "u2"
    /\ MayDraw(whiteboards["w1"], "u2")
    /\ sio_rooms[WbRoom("w1")] = {"s1", "s2", "s3"}
    /\ whiteboards["w1"].drawing_data = <<"p1", "p2">>
    /\ emits = <<Ev("draw_update", {"s1", "s2"}, "u2", "p2")>>

(***************************************************************************)
(* Claims about joining.                                                   *)
(***************************************************************************)
\* C4: a join_room of a bound connection for a whiteboard room whose session
\* has is_active = false yields an error event to the joiner and changes
\* neither the session's participants, nor the presence map, nor the room
\* timers; this covers a session the timer monitor ended at the hard limit.
C4_JoinEndedSessionRejected ==
    [][(/\ last'.op = "join_room" /\ last'.arg # ""
        /\ last'.room.kind = "whiteboard"
        /\ WbExists(whiteboards, last'.room.id)
        /\ whiteboards[last'.room.id].is_active = FALSE)
          => /\ \E i \in DOMAIN emits' :
                    emits'[i].event = "error" /\ emits'[i].to = {last'.sid}
             /\ whiteboards'[last'.room.id].participants
                    = whiteboards[last'.room.id].participants
             /\ online_users' = online_users
             /\ room_timers' = room_timers]_vars

\* The sender of the undo being handled may edit the session its room names.
UndoOnSession ==
    /\ last'.op = "undo_action"
    /\ last'.room.kind = "whiteboard"
    /\ WbExists(whiteboards, last'.room.id)
    /\ DrawSender # ""

\* C11: on a session, each allowed draw extends drawing_data by one entry at
\* the end and keeps the earlier entries; each allowed undo removes exactly
\* the last entry of a non-empty history and leaves an empty history empty;
\* an undo of a sender without can_draw changes nothing and broadcasts
\* nothing.
C11_HistoryIsAStack ==
    [][/\ (DrawOnSession /\ MayDraw(whiteboards[last'.room.id], DrawSender))
          => LET old == whiteboards[last'.room.id].drawing_data
                 new == whiteboards'[last'.room.id].drawing_data
             IN  /\ Len(new) = Len(old) + 1
                 /\ SubSeq(new, 1, Len(old)) = old
                 /\ new[Len(new)] = last'.arg
       /\ (UndoOnSession /\ MayDraw(whiteboards[last'.room.id], DrawSender))
          => LET old == whiteboards[last'.room.id].drawing_data
                 new == whiteboards'[last'.room.id].drawing_data
             IN  IF old = <<>> THEN new = <<>>
                 ELSE /\ Len(new) = Len(old) - 1
                      /\ new = SubSeq(old, 1, Len(old) - 1)
       /\ (UndoOnSession /\ ~MayDraw(whiteboards[last'.room.id], DrawSender))
          => /\ whiteboards' = whiteboards
             /\ emits' = <<>>]_vars

\* The member u2 has undone the second of two entries: the first one is left,
\* and the notification went to the creator's connection in the room.
C11_Witness ==
    /\ last.op = "undo_action" /\ last.sid = "s3" /\ last.room = WbRoom("w1")
    /\ Get(sid_to_user, "s3", "") = "u2"
    /\ WbExists(whiteboards, "w1")
    /\ MayDraw(whiteboards["w1"], "u2")
    /\ whiteboards["w1"].drawing_data = <<"p2">>
    /\ dbops = <<DbOp("pop", "w1", "drawing_data", 1)>>
    /\ emits = <<Ev("undo_action", {"s1"}, "u2", "")>>

\* A connection that is open: it is registered, or it still sits in a room
\* (the server takes a closed connection out of every room).
OpenConnection(sid) ==
    \/ sid \in DOMAIN sid_to_user
    \/ \E r \in DOMAIN sio_rooms : sid \in sio_rooms[r]

\* The step handles an authorised revoke_speak or revoke_screen_share.
AuthorisedRevoke ==
    /\ last'.op \in {"revoke_speak", "revoke_screen_share"}
    /\ WbExists(whiteboards, last'.room.id)
    /\ BoundUser(sid_to_user, last'.sid) # ""
    /\ Str(whiteboards[last'.room.id].created_by) = STR(BoundUser(sid_to_user, last'.sid))

\* The number of notifications of the handled revocation sent to sid alone.
ForceCount(evs, sid) ==
    Cardinality({i \in DOMAIN evs : evs[i].event \in {"force_mute", "force_stop_screen"}
                                    /\ evs[i].to = {sid}})

\* C12: an authorised revoke_speak (revoke_screen_share) sends one force_mute
\* (force_stop_screen) to each open connection of the target, whichever rooms
\* it is in, and none to a connection of another user.
C12_ForceReachesEveryConnection ==
    [][AuthorisedRevoke
       => \A sid \in Sids :
             ForceCount(emits', sid) =
                 IF SidOwner[sid] = last'.arg /\ OpenConnection(sid) THEN 1 ELSE 0]_vars

\* The revocations notify exactly the connections the registry lists for the
\* target, each once, with the event of the revoked capability.
C12_ForceFollowsRegistry ==
    [][AuthorisedRevoke
       => \A sid \in Sids :
             /\ ForceCount(emits', sid) =
                    IF sid \in Get(connected_users, last'.arg, {}) THEN 1 ELSE 0
             /\ \A i \in DOMAIN emits' :
                    emits'[i].event \in {"force_mute", "force_stop_screen"}
                        => emits'[i].event = IF last'.op = "revoke_speak"
                                             THEN "force_mute" ELSE "force_stop_screen"]_vars

\* u1 revoked their own speak with both tabs registered: both were notified.
C12_Witness ==
    /\ last.op = "revoke_speak" /\ last.arg = "u1" /\ last.sid = "s1"
    /\ Get(connected_users, "u1", {}) = {"s1", "s2"}
    /\ Len(emits) = 4
    /\ {emits[3].to, emits[4].to} = {{"s1"}, {"s2"}}
    /\ emits[3].event = "force_mute" /\ emits[4].event = "force_mute"

\* The capability list each of the six permission events works on.
CapabilityField ==
    [grant_draw |-> "can_draw", revoke_draw |-> "can_draw",
     grant_speak |-> "can_speak", revoke_speak |-> "can_speak",
     grant_screen_share |-> "can_share_screen", revoke_screen_share |-> "can_share_screen"]

CapabilityFields == {"can_draw", "can_speak", "can_share_screen"}

\* The step handles one of the six events, sent by a bound connection for a
\* session that exists, with a user as its target.
PermissionStep ==
    /\ last'.op \in DOMAIN CapabilityField
    /\ last'.room.kind = "whiteboard"
    /\ WbExists(whiteboards, last'.room.id)
    /\ BoundUser(sid_to_user, last'.sid) # ""
    /\ last'.arg \in Users

\* The requester of the handled event created the session.
ByCreator ==
    Str(Get(whiteboards[last'.room.id], "created_by", None))
        = STR(BoundUser(sid_to_user, last'.sid))

\* The permissions_updated events among evs.
Broadcasts(evs) == {i \in DOMAIN evs : evs[i].event = "permissions_updated"}

\* C13: after a grant the creator sends for a user, the persisted list of the
\* capability holds the target and the one permissions_updated broadcast goes
\* to the room with the three re-fetched lists, the target in the list of the
\* capability; after a revoke neither the list nor the broadcast holds the
\* target; the two other lists are left as they were.
C13_GrantRevokeUpdateListAndBroadcast ==
    [][(PermissionStep /\ ByCreator)
       => LET id == last'.room.id
              X == CapabilityField[last'.op]
              grants == last'.op \in {"grant_draw", "grant_speak", "grant_screen_share"}
              stored == Get(whiteboards'[id], X, <<>>)
          IN  /\ (OID(last'.arg) \in Elems(stored)) = grants
              /\ \A f \in CapabilityFields \ {X} :
                     Get(whiteboards'[id], f, <<>>) = Get(whiteboards[id], f, <<>>)
              /\ Cardinality(Broadcasts(emits')) = 1
              /\ \A i \in Broadcasts(emits') :
                     /\ emits'[i].to = Recipients(sio_rooms, last'.room, {})
                     /\ \A f \in CapabilityFields :
                            emits'[i].data[f] = StrList(Get(whiteboards'[id], f, <<>>))
                     /\ (STR(last'.arg) \in Elems(emits'[i].data[X])) = grants]_vars

\* The creator granted screen share to u2 while u2 sat in the room: the list
\* and the broadcast to u2's connection hold u2.
C13_Witness ==
    /\ last.op = "grant_screen_share" /\ last.arg = "u2" /\ last.sid = "s1"
    /\ WbExists(whiteboards, "w1")
    /\ Get(whiteboards["w1"], "can_share_screen", <<>>) = <<OID("u2")>>
    /\ Len(emits) = 2
    /\ emits[2].event = "permissions_updated"
    /\ emits[2].to = {"s3"}
    /\ emits[2].data.can_share_screen = <<STR("u2")>>

\* The requester of the handled event is the owner of the session's group.
ByGroupOwner ==
    /\ group # None
    /\ Get(whiteboards[last'.room.id], "group_id", None) = group._id
    /\ Str(group.owner_id) = STR(BoundUser(sid_to_user, last'.sid))

\* C14: each of the six permission events is accepted exactly when the bound
\* requester is the session's creator or the owner of the session's group;
\* for any other requester the capability lists are unchanged and no
\* permissions_updated, force_mute, force_stop_screen or media update is
\* produced.
C14_AcceptedIffCreatorOrGroupOwner ==
    [][PermissionStep
       => IF ByCreator \/ ByGroupOwner
          THEN Broadcasts(emits') # {}
          ELSE /\ emits' = <<>>
               /\ whiteboards' = whiteboards]_vars

\* What the handlers do: draw and speak events are accepted from the creator
\* only (the group document has no 'owner' field), screen-share events from
\* the creator only; anyone else changes and produces nothing.
C14_AcceptedIffCreator ==
    [][PermissionStep
       => IF ByCreator
          THEN Broadcasts(emits') # {}
          ELSE /\ emits' = <<>>
               /\ whiteboards' = whiteboards
               /\ dbops' = <<>>]_vars

\* The group's owner, who did not create the session, sent grant_speak and
\* nothing happened.
C14_Witness ==
    /\ last.op = "grant_speak" /\ last.sid = "s3" /\ last.arg = "u2"
    /\ Get(sid_to_user, "s3", "") = "u2"
    /\ group # None /\ Str(group.owner_id) = STR("u2")
    /\ WbExists(whiteboards, "w1")
    /\ whiteboards["w1"].created_by = OID("u1")
    /\ emits = <<>>

\* C15: over the life of a session exactly one session_warning is broadcast
\* for it; here, its safety half: the monitor never broadcasts a second one.
C15_OneWarningPerSession == \A r \in Rooms : warnings[r] <= 1

\* The poll being taken warns the room r.
WarnsNow(r) ==
    /\ last'.op = "check_session_timers"
    /\ \E i \in DOMAIN emits' :
           emits'[i].event = "session_warning" /\ emits'[i].to = Recipients(sio_rooms, r, {})
    /\ warnings'[r] = warnings[r] + 1

\* What the monitor guarantees: one warning for each timer entry, sent at a
\* poll that finds the entry unwarned and between the two thresholds, and
\* not in the poll that ends the session.
C15_OneWarningPerTimer ==
    [][\A r \in Rooms :
          (warnings'[r] # warnings[r])
              => /\ WarnsNow(r)
                 /\ r \in DOMAIN room_timers /\ ~room_timers[r].warned
                 /\ now - room_timers[r].start_time > WARN_SECONDS
                 /\ now - room_timers[r].start_time <= LIMIT_SECONDS
                 /\ r \in DOMAIN room_timers' /\ room_timers'[r].warned]_vars

\* The session was warned, ended at the hard limit, joined again, and the
\* timer the join created has been warned too.
C15_Witness ==
    /\ warnings[WbRoom("w1")] = 2
    /\ WbExists(whiteboards, "w1")
    /\ ~whiteboards["w1"].is_active
    /\ WbRoom("w1") \in DOMAIN room_timers
    /\ room_timers[WbRoom("w1")].warned

\* The poll being taken finds the timer of room r past the hard limit, and
\* the session of r exists.
HardLimitPoll(r) ==
    /\ last'.op = "check_session_timers"
    /\ r \in DOMAIN room_timers
    /\ now - room_timers[r].start_time > LIMIT_SECONDS
    /\ WbExists(whiteboards, r.id)

\* The session of r is ended by the step: marked, stamped, announced to the
\* room, and its timer removed.
EndedByPoll(r) ==
    /\ ~whiteboards'[r.id].is_active
    /\ whiteboards'[r.id].ended_at = now
    /\ \E i \in DOMAIN emits' :
           emits'[i].event = "session_ended" /\ emits'[i].to = Recipients(sio_rooms, r, {})
    /\ r \notin DOMAIN room_timers'

\* C16: the poll that finds a tracked timer past the 20-minute limit sets the
\* session's is_active to false with an ended_at stamp, broadcasts
\* session_ended to the room, dispatches the deletion of the media room and
\* removes the timer entry.
C16_HardLimitStep ==
    [][\A r \in Rooms :
          HardLimitPoll(r)
              => /\ EndedByPoll(r)
                 /\ \E i \in DOMAIN emits' :
                        emits'[i].event = "delete_room" /\ emits'[i].data = r]_vars

\* What the poll does: everything but the deletion, which is dispatched
\* exactly when the service has an API client by then.
C16_HardLimitStepWithoutDeletion ==
    [][\A r \in Rooms :
          HardLimitPoll(r)
              => /\ EndedByPoll(r)
                 /\ (\E i \in DOMAIN emits' :
                        emits'[i].event = "delete_room" /\ emits'[i].data = r)
                        = (livekit.lkapi # None)]_vars

\* The monitor has ended a session with no API client: session_ended is the
\* only thing it produced.
C16_Witness ==
    /\ last.op = "check_session_timers"
    /\ livekit.lkapi = None
    /\ WbExists(whiteboards, "w1")
    /\ ~whiteboards["w1"].is_active
    /\ "ended_at" \in DOMAIN whiteboards["w1"] /\ whiteboards["w1"].ended_at = now
    /\ WbRoom("w1") \notin DOMAIN room_timers
    /\ Len(emits) = 1 /\ emits[1].event = "session_ended"

\* The step is a pass of the streak checker over a group with members whose
\* active-user count meets the threshold.
QualifyingCheck ==
    /\ last'.op = "check_group_streaks"
    /\ group # None /\ Len(group.members) > 0
    /\ Cardinality(last'.arg) >= StreakThreshold(group_streaks.doc, Len(group.members))

\* The group's streak has been counted on the present day already.
CountedToday ==
    /\ group_streaks.doc # None
    /\ group_streaks.doc.last_active_day = isoformat(group_streaks.today)

\* streak_count before the check; a group without a document has none.
StreakBefore == IF group_streaks.doc = None THEN 0 ELSE group_streaks.doc.streak_count

\* With 10 members and no threshold of its own a group needs 2 active users:
\* a check with 2 senders counts the day, a check with 1 does not.
TenMembersNeedTwo ==
    (/\ last'.op = "check_group_streaks"
     /\ group # None /\ Len(group.members) = 10
     /\ (group_streaks.doc = None \/ group_streaks.doc.threshold.t = "none")
     /\ ~CountedToday)
        => /\ Cardinality(last'.arg) = 2
               => /\ group_streaks'.doc # None
                  /\ group_streaks'.doc.last_active_day = isoformat(group_streaks.today)
           /\ Cardinality(last'.arg) = 1
               => \/ group_streaks'.doc = None
                  \/ group_streaks'.doc.last_active_day # isoformat(group_streaks.today)

\* C17 as stated: for a group that meets the threshold, the first check on a
\* day raises streak_count by exactly 1 and sets last_active_day to the day,
\* every further check on that day changes neither; with 10 members and no
\* override, 2 senders qualify.
C17_FirstCheckOfDayAddsOne ==
    [][/\ QualifyingCheck
          => IF CountedToday
             THEN group_streaks'.doc = group_streaks.doc
             ELSE /\ group_streaks'.doc.streak_count = StreakBefore + 1
                  /\ group_streaks'.doc.last_active_day = isoformat(group_streaks.today)
       /\ TenMembersNeedTwo]_vars

\* C17, amended: the first qualifying check on a day raises streak_count by
\* exactly 1 when the group has no document yet or was last active at most
\* GROUP_STREAK_MAX_GAP_DAYS days ago, and sets it to 1 when the last active
\* day is further back or unknown; either way last_active_day becomes the
\* day, and every further check on that day changes nothing; with 10 members
\* and no override, 2 senders qualify.
C17_FirstCheckOfDayAddsOneWithinGap ==
    [][/\ QualifyingCheck
          => IF CountedToday
             THEN group_streaks'.doc = group_streaks.doc
             ELSE /\ group_streaks'.doc.streak_count =
                         IF \/ group_streaks.doc = None
                            \/ /\ group_streaks.doc.last_active_day.t = "iso"
                               /\ group_streaks.today
                                      - group_streaks.doc.last_active_day.v
                                    <= GROUP_STREAK_MAX_GAP_DAYS
                         THEN StreakBefore + 1
                         ELSE 1
                  /\ group_streaks'.doc.last_active_day = isoformat(group_streaks.today)
       /\ TenMembersNeedTwo]_vars

\* A group of 10 with a streak of 2 was counted on a third day by a check
\* that saw 2 senders.
C17_Witness ==
    /\ last.op = "check_group_streaks" /\ last.arg = {"u1", "u2"}
    /\ group # None /\ Len(group.members) = 10
    /\ group_streaks.doc # None
    /\ group_streaks.doc.threshold.t = "none"
    /\ group_streaks.doc.streak_count = 3
    /\ group_streaks.doc.last_active_day = isoformat(group_streaks.today)

\* The events the claim lists, as the model names them.
GuardedEvents ==
    {"join_room", "message", "whiteboard_draw", "undo_action", "clear_board",
     "raise_hand", "clear_hand", "typing_indicator"} \cup DOMAIN CapabilityField

\* Everything but the record of the last event and of what it produced.
AppState ==
    <<connected_users, sid_to_user, sio_rooms, online_users, room_timers, whiteboards,
      group, group_streaks, livekit, inflight, warnings, media, draw_log>>

\* C18: a connect binds its connection only if its token was validated: with
\* a missing or invalid token the registry is left as it was, the connection
\* is closed and nothing is emitted; and a join_room, message, draw, undo,
\* clear, raise or clear hand, typing, grant or revoke event from a connection
\* that sid_to_user does not bind changes no state and emits nothing.
C18_OnlyValidatedConnectionsAct ==
    [][/\ last'.op = "connect"
          => /\ (registry' # registry) => last'.arg.sig = "ok"
             /\ last'.arg.sig # "ok"
                   => /\ registry' = registry
                      /\ last'.sid \notin DOMAIN sid_to_user'
                      /\ \A r \in DOMAIN sio_rooms' : last'.sid \notin sio_rooms'[r]
                      /\ emits' = <<>>
       /\ (last'.op \in GuardedEvents /\ last'.sid \notin DOMAIN sid_to_user)
          => /\ AppState' = AppState
             /\ emits' = <<>>
             /\ dbops' = <<>>]_vars

\* An unbound connection sent a draw event for the session while the
\* creator's bound connection sat in the room: nothing was stored or sent.
C18_Witness ==
    /\ last.op = "whiteboard_draw" /\ last.sid = "s3" /\ last.room = WbRoom("w1")
    /\ "s3" \notin DOMAIN sid_to_user
    /\ WbExists(whiteboards, "w1")
    /\ "s1" \in sio_rooms[WbRoom("w1")]
    /\ whiteboards["w1"].drawing_data = <<>>
    /\ emits = <<>>

\* A connect with a forged token was refused: the connection is not bound.
C18_WitnessRefused ==
    /\ last.op = "connect" /\ last.arg.sig = "forged"
    /\ last.sid \notin DOMAIN sid_to_user
    /\ \A u \in DOMAIN connected_users : last.sid \notin connected_users[u]

\* The step answers a token request for a session that exists and is active.
TokenRequest ==
    /\ last'.op = "get_livekit_token"
    /\ WbExists(whiteboards, last'.room.id)
    /\ Get(whiteboards[last'.room.id], "is_active", TRUE)

\* C19: a token request of a user who is not in the media room is refused
\* whenever the room's occupancy is at or above MAX_PARTICIPANTS_PER_ROOM,
\* and a user who is in the room is never refused on account of the cap.
C19_CapRefusesNewcomers ==
    [][TokenRequest
       => /\ (last'.arg \notin media.present
                 /\ Occupancy(media) >= MAX_PARTICIPANTS_PER_ROOM)
              => /\ emits'[1].data = 429
                 /\ media'.tokens = media.tokens
          /\ last'.arg \in media.present => emits'[1].data # 429]_vars

\* What the route does: no request is ever refused on account of the cap.
C19_CapNeverRefuses ==
    [][TokenRequest => emits'[1].data \in {200, 503}]_vars

\* A token was issued to a user outside a media room that was full.
C19_Witness ==
    /\ last.op = "get_livekit_token" /\ last.arg = "u2"
    /\ "u2" \notin media.present
    /\ Occupancy(media) >= MAX_PARTICIPANTS_PER_ROOM
    /\ emits = <<Ev("response", {}, "u2", 200)>>
    /\ "u2" \in media.tokens

\* The payloads stored for the session of room w1.
Appended == IF WbExists(whiteboards, "w1") THEN whiteboards["w1"].drawing_data ELSE <<>>

\* C20: for concurrently handled allowed draw events of different
\* connections on one room, the entries of drawing_data are in the order of
\* the draw_update broadcasts, which is the order in which the events were
\* received; stated for the moments when no handler is under way.
C20_AppendOrderIsBroadcastOrderIsReceiptOrder ==
    (inflight = EmptyDict /\ WbExists(whiteboards, "w1"))
        => /\ Appended = draw_log.emitted
           /\ draw_log.emitted = draw_log.received

\* Two events were received as p1, p2 and broadcast as p1, p2, and
\* drawing_data holds p2 before p1.
C20_Witness ==
    /\ inflight = EmptyDict
    /\ draw_log.received = <<"p1", "p2">>
    /\ draw_log.emitted = <<"p1", "p2">>
    /\ Appended = <<"p2", "p1">>

(***************************************************************************)
(* The media provider against the persisted session.                       *)
(***************************************************************************)
\* Every permission task that was started has run, and none met an error.
BridgeQuiet == livekit.tasks = {} /\ ~livekit.failed

\* C21: once every permission task started by the grants and revocations of
\* speak and screen share has run without an error of the provider, the
\* can_publish last set at the provider for a user is the can_publish that
\* compute_permissions gives for the persisted session, whatever the order
\* in which the tasks ran.
C21_ProviderFollowsSession ==
    (BridgeQuiet /\ WbExists(whiteboards, "w1"))
        => \A u \in DOMAIN media.can_publish :
               media.can_publish[u]
                   = compute_permissions(whiteboards["w1"], STR(u)).can_publish

\* The last of the permission tasks has just run without error, after the
\* other member was given a capability and lost it again.
C21_Witness ==
    /\ last.op = "update_lk_permissions"
    /\ BridgeQuiet
    /\ WbExists(whiteboards, "w1")
    /\ "u2" \in DOMAIN media.can_publish
    /\ ~compute_permissions(whiteboards["w1"], STR("u2")).can_publish

(***************************************************************************)
(* In-session events on an ended session.                                  *)
(***************************************************************************)
InSessionEvents ==
    {"whiteboard_draw", "undo_action", "clear_board", "raise_hand", "clear_hand"}
        \cup DOMAIN CapabilityField

\* The fields of a session that its in-session events write.
SessionFields == {"drawing_data", "raised_hands", "participants"} \cup CapabilityFields

\* The step handles an in-session event of a bound connection for a session
\* that exists and whose is_active is false.
OnEndedSession ==
    /\ last'.op \in InSessionEvents
    /\ last'.room.kind = "whiteboard"
    /\ WbExists(whiteboards, last'.room.id)
    /\ ~whiteboards[last'.room.id].is_active
    /\ BoundUser(sid_to_user, last'.sid) # ""

\* C22: once a session's is_active is false, a draw, undo, clear, raise_hand,
\* clear_hand, grant or revoke event leaves its drawing_data, raised_hands,
\* participants and capability lists as they were and sends no event to any
\* client.
C22_EndedSessionIsImmutable ==
    [][OnEndedSession
       => /\ \A f \in SessionFields :
                 Get(whiteboards'[last'.room.id], f, <<>>)
                     = Get(whiteboards[last'.room.id], f, <<>>)
          /\ \A i \in DOMAIN emits' : emits'[i].event = "update_lk_permissions"]_vars

\* The creator sent a draw event for the session after ending it.
C22_Witness ==
    /\ last.op = "whiteboard_draw" /\ last.sid = "s1" /\ last.room = WbRoom("w1")
    /\ BoundUser(sid_to_user, "s1") = "u1"
    /\ WbExists(whiteboards, "w1")
    /\ ~whiteboards["w1"].is_active

(***************************************************************************)
(* Joining a room that names no session.                                   *)
(***************************************************************************)
\* The step handles a join_room of a bound connection for a whiteboard room
\* whose id is malformed, or is well-formed and names no session.
JoinOfNoSession ==
    /\ last'.op = "join_room" /\ last'.arg # ""
    /\ last'.room.kind = "whiteboard"
    /\ \/ ~is_valid_object_id(last'.room.id)
       \/ ~WbExists(whiteboards, last'.room.id)

\* C23: a join_room for a whiteboard room whose id is malformed, or names no
\* existing session, is answered with an error event to the joiner and
\* changes nothing: no timer entry, no participant, no entry of the presence
\* map, no membership of the room's broadcast group, and neither online_users
\* nor user_joined is sent.
C23_JoinOfNoSessionFailsClosed ==
    [][JoinOfNoSession
       => /\ \E i \in DOMAIN emits' :
                 emits'[i].event = "error" /\ emits'[i].to = {last'.sid}
          /\ room_timers' = room_timers
          /\ whiteboards' = whiteboards
          /\ online_users' = online_users
          /\ sio_rooms' = sio_rooms
          /\ \A i \in DOMAIN emits' :
                 emits'[i].event \notin {"online_users", "user_joined"}]_vars

\* A bound connection joined the room of a malformed id.
C23_WitnessMalformed ==
    /\ last.op = "join_room" /\ last.arg = "u1" /\ last.room = WbRoom(BadId)

\* A bound connection joined the room of a well-formed id that names no
\* session, while another session exists.
C23_Witness ==
    /\ last.op = "join_room" /\ last.arg = "u1" /\ last.room = WbRoom("w2")
    /\ WbExists(whiteboards, "w1")
    /\ ~WbExists(whiteboards, "w2")

(***************************************************************************)
(* The hard limit while the document store is down.                        *)
(***************************************************************************)
\* The poll being taken finds the timer of room r past the hard limit and
\* its update of the session fails.
HardLimitPollDbDown(r) ==
    /\ HardLimitPoll(r)
    /\ last'.arg = "db_down"

\* The step dispatches the deletion of the media room of r.
DeletionDispatched(r) ==
    \E i \in DOMAIN emits' : emits'[i].event = "delete_room" /\ emits'[i].data = r

\* C24: when the update that marks a session ended fails at the hard limit,
\* the monitor still broadcasts session_ended to the room, still dispatches
\* the deletion of the media room, still removes the timer entry, and the
\* pass completes so that the next poll takes place.
C24_HardLimitSurvivesStoreFailure ==
    [][\A r \in Rooms :
          HardLimitPollDbDown(r)
              => /\ \E i \in DOMAIN emits' :
                        /\ emits'[i].event = "session_ended"
                        /\ emits'[i].to = Recipients(sio_rooms, r, {})
                 /\ DeletionDispatched(r)
                 /\ r \notin DOMAIN room_timers'
                 /\ polled']_vars

\* What the pass does when the update fails: the session keeps is_active,
\* and the rest is as when the update succeeds, the deletion being
\* dispatched exactly when the service has an API client by then.
C24_StoreFailureLeavesTheRest ==
    [][\A r \in Rooms :
          HardLimitPollDbDown(r)
              => /\ whiteboards' = whiteboards
                 /\ \E i \in DOMAIN emits' :
                        /\ emits'[i].event = "session_ended"
                        /\ emits'[i].to = Recipients(sio_rooms, r, {})
                 /\ DeletionDispatched(r) = (livekit.lkapi # None)
                 /\ r \notin DOMAIN room_timers'
                 /\ polled']_vars

\* The monitor reached the hard limit of a joined session while the store
\* was down: the session is still marked active and its timer is gone.
C24_Witness ==
    /\ last.op = "check_session_timers" /\ last.arg = "db_down"
    /\ WbExists(whiteboards, "w1")
    /\ whiteboards["w1"].is_active
    /\ WbRoom("w1") \notin DOMAIN room_timers
    /\ \E i \in DOMAIN emits : emits[i].event = "session_ended" /\ emits[i].to = {"s1"}

\* The step handles a grant or revocation of speak or screen share that the
\* session's creator sent for a user.
MediaPermissionStep ==
    /\ PermissionStep
    /\ ByCreator
    /\ last'.op \in {"grant_speak", "revoke_speak", "grant_screen_share",
                     "revoke_screen_share"}

\* C25: a permission task that fails at the media provider, or that never
\* runs, leaves the persisted capability lists as the handler wrote them and
\* sends no event to any client; and whatever became of the tasks started
\* before, a grant or revocation of speak or screen share writes its list and
\* sends its permissions_updated broadcast in the handler itself, with no
\* error event.
C25_ProviderFailureStaysInternal ==
    [][/\ last'.op = "update_lk_permissions"
          => /\ whiteboards' = whiteboards
             /\ emits' = <<>>
       /\ MediaPermissionStep
          => LET stored == Get(whiteboards'[last'.room.id], CapabilityField[last'.op], <<>>)
             IN  /\ (OID(last'.arg) \in Elems(stored))
                        = (last'.op \in {"grant_speak", "grant_screen_share"})
                 /\ Cardinality(Broadcasts(emits')) = 1
                 /\ \A i \in DOMAIN emits' : emits'[i].event # "error"]_vars

\* The task of a screen-share grant has just failed at the provider: the
\* grant is still persisted and nothing was sent.
C25_Witness ==
    /\ last.op = "update_lk_permissions"
    /\ livekit.failed
    /\ livekit.tasks = {}
    /\ WbExists(whiteboards, "w1")
    /\ OID("u2") \in Elems(Get(whiteboards["w1"], "can_share_screen", <<>>))
    /\ emits = <<>>

\* A revocation was handled and broadcast while the task of the grant before
\* it had not run.
C25_WitnessStalled ==
    /\ last.op = "revoke_screen_share"
    /\ Cardinality(livekit.tasks) = 2
    /\ OID("u2") \notin Elems(Get(whiteboards["w1"], "can_share_screen", <<>>))
    /\ \E i \in DOMAIN emits : emits[i].event = "permissions_updated"

(***************************************************************************)
(* The streak on days that count and on days that do not.                  *)
(***************************************************************************)
\* The group's last active day is a valid date; Gap is the days since.
HasLastDay ==
    /\ group_streaks.doc # None
    /\ group_streaks.doc.last_active_day.t = "iso"

GapDays == group_streaks.today - fromisoformat(group_streaks.doc.last_active_day)

\* C26: on a check that meets the threshold on a day not yet counted,
\* streak_count becomes the old count plus 1 when last_active_day is a valid
\* date at most GROUP_STREAK_MAX_GAP_DAYS days back, and exactly 1 when the
\* gap is larger or last_active_day is missing; last_active_day becomes the
\* day; a group without a document gets one with streak_count 1.
C26_MetThresholdCountsOrRestarts ==
    [][(QualifyingCheck /\ ~CountedToday)
       => /\ group_streaks'.doc # None
          /\ group_streaks'.doc.last_active_day = isoformat(group_streaks.today)
          /\ group_streaks'.doc.streak_count =
                 IF group_streaks.doc = None THEN 1
                 ELSE IF HasLastDay /\ GapDays <= GROUP_STREAK_MAX_GAP_DAYS
                 THEN group_streaks.doc.streak_count + 1
                 ELSE 1]_vars

\* A check that met the threshold has left the streak at 1 on a day later
\* than GROUP_STREAK_MAX_GAP_DAYS + 1: the group's first document, or a streak
\* that restarted after a gap.
C26_Witness ==
    /\ last.op = "check_group_streaks"
    /\ group # None /\ Len(group.members) > 0
    /\ group_streaks.doc # None
    /\ group_streaks.doc.streak_count = 1
    /\ group_streaks.doc.last_active_day = isoformat(group_streaks.today)
    /\ group_streaks.today > GROUP_STREAK_MAX_GAP_DAYS + 1

\* The step is a pass of the streak checker over a group with members whose
\* active-user count is below the threshold.
MissedCheck ==
    /\ last'.op = "check_group_streaks"
    /\ group # None /\ Len(group.members) > 0
    /\ Cardinality(last'.arg) < StreakThreshold(group_streaks.doc, Len(group.members))

\* C27: a check below the threshold leaves streak_count and last_active_day
\* as they were unless the last active day is more than
\* GROUP_STREAK_MAX_GAP_DAYS days back, and then streak_count becomes exactly
\* 0; streak_count is never negative, and no step removes the document.
C27_MissedThresholdKeepsOrZeroes ==
    [][/\ MissedCheck
          => IF HasLastDay /\ GapDays > GROUP_STREAK_MAX_GAP_DAYS
             THEN group_streaks'.doc.streak_count = 0
             ELSE group_streaks'.doc = group_streaks.doc
       /\ group_streaks.doc # None
          => /\ group_streaks'.doc # None
             /\ group_streaks'.doc.streak_count >= 0]_vars

\* A check below the threshold has just zeroed a streak whose last active day
\* was more than GROUP_STREAK_MAX_GAP_DAYS days back.
C27_Witness ==
    /\ last.op = "check_group_streaks"
    /\ Cardinality(last.arg) < StreakThreshold(group_streaks.doc, Len(group.members))
    /\ group_streaks.doc # None
    /\ group_streaks.doc.streak_count = 0
    /\ group_streaks.doc.last_active_day = None
    /\ group_streaks.doc.threshold.t = "none"

(***************************************************************************)
(* Leaving a room.                                                         *)
(***************************************************************************)
\* The step handles a leave_room that a bound connection sends, in the name
\* of its own user, for a room whose presence map holds that user.
LeaveStep ==
    /\ last'.op = "leave_room"
    /\ last'.room \in DOMAIN online_users
    /\ last'.arg \in DOMAIN online_users[last'.room]
    /\ last'.room # NoRoom
    /\ last'.arg # ""
    /\ last'.arg = BoundUser(sid_to_user, last'.sid)

\* C28: a leave_room for (room, user) removes the user from the room's
\* presence map, and the room's entry when it becomes empty, removes the user
\* from the participants of the session of a whiteboard room, and broadcasts
\* to the room an online_users list without the user and a user_left
\* notification.
C28_LeaveClearsPresenceAndBroadcasts ==
    [][LeaveStep
       => /\ last'.room \in DOMAIN online_users'
                 => /\ last'.arg \notin DOMAIN online_users'[last'.room]
                    /\ online_users'[last'.room] # EmptyDict
          /\ (last'.room.kind = "whiteboard" /\ WbExists(whiteboards', last'.room.id))
                 => OID(last'.arg) \notin Elems(whiteboards'[last'.room.id].participants)
          /\ \E i \in DOMAIN emits' :
                 /\ emits'[i].event = "online_users"
                 /\ emits'[i].to = Recipients(sio_rooms', last'.room, {})
                 /\ last'.arg \notin emits'[i].data
          /\ \E i \in DOMAIN emits' :
                 /\ emits'[i].event = "user_left"
                 /\ emits'[i].to = Recipients(sio_rooms', last'.room, {})]_vars

\* What leave_room does: the participant is pulled and user_left is the one
\* event sent; the presence map is left as it was.
C28_LeaveKeepsPresence ==
    [][LeaveStep
       => /\ online_users' = online_users
          /\ (last'.room.kind = "whiteboard" /\ WbExists(whiteboards', last'.room.id))
                 => OID(last'.arg) \notin Elems(whiteboards'[last'.room.id].participants)
          /\ Len(emits') = 1
          /\ emits'[1].event = "user_left"
          /\ emits'[1].to = Recipients(sio_rooms', last'.room, {})]_vars

\* The other member left the room of the session after joining it, while the
\* creator stayed.
C28_Witness ==
    /\ last.op = "leave_room" /\ last.sid = "s3" /\ last.arg = "u2"
    /\ last.room = WbRoom("w1")
    /\ WbExists(whiteboards, "w1")
    /\ "s1" \in sio_rooms[WbRoom("w1")]
    /\ "s3" \notin sio_rooms[WbRoom("w1")]
    /\ WbRoom("w1") \in DOMAIN online_users
    /\ OID("u2") \notin Elems(whiteboards["w1"].participants)

(***************************************************************************)
(* A disconnect whose cleanup fails in one room.                           *)
(***************************************************************************)
\* The step handles the disconnect of the last connection of a user.
LastDisconnectStep ==
    /\ last'.op = "disconnect"
    /\ last'.arg # ""
    /\ last'.arg \notin DOMAIN connected_users'

\* The session id was found for the user of the step and its room is not the
\* one whose cleanup failed.
OtherRoomOf(id) ==
    /\ id \in Elems(DisconnectSessions(whiteboards, last'.arg))
    /\ WbRoom(id) # last'.room

\* C29: in the cleanup of a last-connection disconnect over several sessions,
\* a failure while cleaning up one room leaves the cleanup of every other room
\* whole: the user is removed from its participants and its presence map, and
\* the room receives its online_users and user_left broadcasts.
C29_OtherRoomsStillCleaned ==
    [][LastDisconnectStep
       => \A id \in WbIds :
              OtherRoomOf(id)
              => /\ OID(last'.arg) \notin Elems(whiteboards'[id].participants)
                 /\ ~PresentIn(online_users', id, last'.arg)
                 /\ PresentIn(online_users, id, last'.arg)
                        => \A event \in {"online_users", "user_left"} :
                               \E i \in DOMAIN emits' :
                                   /\ emits'[i].event = event
                                   /\ emits'[i].to = Recipients(sio_rooms', WbRoom(id), {})]_vars

\* The broadcast to w1 raised in the cleanup of the creator's last connection:
\* the creator is still a participant of w2 and present in it, while the other
\* member, who is in the room of w2, was sent nothing.
C29_Witness ==
    /\ last.op = "disconnect" /\ last.arg = "u1" /\ last.room = WbRoom("w1")
    /\ "u1" \notin DOMAIN connected_users
    /\ WbExists(whiteboards, "w2")
    /\ OID("u1") \in Elems(whiteboards["w2"].participants)
    /\ PresentIn(online_users, "w2", "u1")
    /\ "s3" \in sio_rooms[WbRoom("w2")]
    /\ emits = <<>>

\* When no broadcast raises, the user is removed from the participants and the
\* presence map of every session found.
C29_NoFailureCleansEveryRoom ==
    [][LastDisconnectStep /\ last'.room = NoRoom
       => \A id \in WbIds :
              OtherRoomOf(id)
              => /\ OID(last'.arg) \notin Elems(whiteboards'[id].participants)
                 /\ ~PresentIn(online_users', id, last'.arg)]_vars

(***************************************************************************)
(* The lock of the room-timer map.                                         *)
(***************************************************************************)
\* The thread that takes the step: the connection's handler for a join, the
\* monitor for every other step that touches room_timers.
StepThread == IF last'.op = "join_room" THEN last'.sid ELSE "monitor"

\* The step inserts a timer, sets warned, or deletes a timer.
MutatesTimers == room_timers' # room_timers

\* The step is the monitor's copy of the map.
CopiesTimers == last'.op = "timers_copy"

\* C30: every access that mutates room_timers (the insertion on join, the
\* setting of warned, the deletion at the hard limit) is made by a thread that
\* holds room_timers_lock, and the monitor's snapshot is taken under the lock.
C30_TimerMutationsHoldLock ==
    [][/\ MutatesTimers => room_timers_lock = StepThread
       /\ CopiesTimers => room_timers_lock = "monitor"]_vars

\* The monitor deleted the timer of w1 while the handler of a join of w1 was
\* inside its block of the lock.
C30_Witness ==
    /\ last.op = "timer_delete" /\ last.room = WbRoom("w1")
    /\ WbRoom("w1") \notin DOMAIN room_timers
    /\ room_timers_lock \in EditSids
    /\ joining[room_timers_lock] = WbRoom("w1")

\* All but the deletion follow the discipline: the insertion, the setting of
\* warned and the snapshot are made under the lock, and the loop visits the
\* entries of the snapshot.
C30_AllButDeletionHoldLock ==
    [][/\ (MutatesTimers /\ last'.op # "timer_delete") => room_timers_lock = StepThread
       /\ CopiesTimers => room_timers_lock = "monitor"
       /\ last'.op = "timer_visit"
              => last'.room = Head(monitor.timers_copy).room]_vars

(***************************************************************************)
(* Concurrent connects and disconnects of one user.                        *)
(***************************************************************************)
\* The connections the registry holds, as the pairs of connected_users and as
\* the pairs of sid_to_user.
ConnectedPairs(cu) == {<<uid, sid>> \in (DOMAIN cu) \X Sids : sid \in cu[uid]}

BoundPairs(s2u) == {<<s2u[sid], sid>> : sid \in DOMAIN s2u}

\* The step ends the block of a connect, or of a disconnect.
ConnectDone == last'.op = "register"

DisconnectDone == last'.op = "disconnect"

\* C31: however the connect and disconnect handlers of a user's connections
\* interleave, each handler that ends its block adds or removes exactly its own
\* connection, which was absent or present before, and after every step
\* the two maps hold the same connections and a user has a key exactly when a
\* connection of the user remains.
C31_RegistryUnderInterleaving ==
    [][/\ ConnectDone
          => /\ <<last'.arg, last'.sid>> \notin ConnectedPairs(connected_users)
             /\ ConnectedPairs(connected_users')
                    = ConnectedPairs(connected_users) \cup {<<last'.arg, last'.sid>>}
       /\ DisconnectDone
          => /\ <<last'.arg, last'.sid>> \in ConnectedPairs(connected_users)
             /\ ConnectedPairs(connected_users')
                    = ConnectedPairs(connected_users) \ {<<last'.arg, last'.sid>>}
       /\ BoundPairs(sid_to_user') = ConnectedPairs(connected_users')
       /\ \A uid \in DOMAIN connected_users' : connected_users'[uid] # {}]_vars

\* The disconnect of one tab of u1 ended its block, leaving the user's key with
\* the other tab, while the disconnect handler of the other tab, which had read
\* its uid before, waits for the lock.
C31_Witness ==
    /\ last.op = "disconnect" /\ last.sid = "s1" /\ last.arg = "u1"
    /\ handlers["s2"].at = "disconnect_read"
    /\ connected_users["u1"] = {"s2"}

(***************************************************************************)
(* Interleaved grants and revocations of one capability.                   *)
(***************************************************************************)
\* The step is the write of the grant_draw or revoke_draw handler of sid.
EditWriteStep(sid) ==
    /\ handlers[sid].at \in EditOps
    /\ handlers'[sid] = Idle

\* The list of the session the handler of sid works on, before and after.
StoredDraw(sid) == Get(whiteboards[handlers[sid].room.id], "can_draw", <<>>)

StoredDrawAfter(sid) == Get(whiteboards'[handlers[sid].room.id], "can_draw", <<>>)

\* The handler of sid read the list before a write that changed it.
ReadIsStale(sid) == handlers[sid].current # StoredDraw(sid)

\* C32: the write of a grant or revoke handler completes, and what it stores
\* is built from the list the handler read, whatever was written since: a
\* revoke stores the list it read without the target, a grant stores the list
\* it read with the target appended, or stores nothing when the target was in
\* the list it read.  So with a stale read the earlier write is overwritten,
\* and with a fresh read the change is applied to the stored list.  No other
\* field of the session changes, and no other session.
C32_LastWriteWins ==
    [][\A sid \in Sids :
          EditWriteStep(sid)
          => LET h == handlers[sid]
                 id == h.room.id
             IN  /\ h.at = "revoke_draw"
                        => StoredDrawAfter(sid)
                               = SelectSeq(h.current, LAMBDA x : x # OID(h.uid))
                 /\ (h.at = "grant_draw" /\ OID(h.uid) \notin Elems(h.current))
                        => StoredDrawAfter(sid) = Append(h.current, OID(h.uid))
                 /\ (h.at = "grant_draw" /\ OID(h.uid) \in Elems(h.current))
                        => StoredDrawAfter(sid) = StoredDraw(sid)
                 /\ ~ReadIsStale(sid)
                        => /\ (h.at = "grant_draw") = (OID(h.uid) \in Elems(StoredDrawAfter(sid)))
                           /\ \A u \in Users \ {h.uid} :
                                  OID(u) \in Elems(StoredDrawAfter(sid))
                                      <=> OID(u) \in Elems(StoredDraw(sid))
                 /\ DOMAIN whiteboards' = DOMAIN whiteboards
                 /\ \A w \in DOMAIN whiteboards :
                        \A field \in DOMAIN whiteboards[w] \cup DOMAIN whiteboards'[w] :
                            (w # id \/ field # "can_draw")
                            => /\ field \in DOMAIN whiteboards[w] \cap DOMAIN whiteboards'[w]
                               /\ whiteboards'[w][field] = whiteboards[w][field]]_vars

\* Both tabs of the creator read the list of both members before either
\* wrote; the first tab has written its revocation of u2, and the other tab is
\* about to write the list it read without u1.
C32_Witness ==
    /\ last.op = "revoke_draw" /\ last.sid = "s1" /\ last.arg = "u2"
    /\ whiteboards["w1"].can_draw = <<OID("u1")>>
    /\ handlers["s2"].at = "revoke_draw" /\ handlers["s2"].uid = "u1"
    /\ handlers["s2"].current = <<OID("u1"), OID("u2")>>

\* The later write has gone through: u2, whose revocation was written first,
\* is in the stored list again.
C32_WitnessLost ==
    /\ last.op = "revoke_draw" /\ last.sid = "s2" /\ last.arg = "u1"
    /\ whiteboards["w1"].can_draw = <<OID("u2")>>

(***************************************************************************)
(* The participants of a session as a list without repetitions.            *)
(***************************************************************************)
\* No value occurs twice in the list.
Distinct(list) == \A i, j \in DOMAIN list : list[i] = list[j] => i = j

\* C33: after any sequence of joins, the participants of every session hold
\* each user id at most once.
C33_ParticipantsAtMostOnce ==
    \A id \in DOMAIN whiteboards : Distinct(whiteboards[id].participants)

\* The creator, a participant from the creation on, joined the room of the
\* session through a connection and is in its participants twice.
C33_Witness ==
    /\ last.op = "join_room" /\ last.arg = "u1" /\ last.room = WbRoom("w1")
    /\ WbExists(whiteboards, "w1")
    /\ whiteboards["w1"].created_by = OID("u1")
    /\ Len(SelectSeq(whiteboards["w1"].participants, LAMBDA x : x = OID("u1"))) > 1

\* A leave takes every occurrence of the user out of the participants.
C33_LeaveTakesEveryOccurrence ==
    [][(LeaveStep /\ last'.room.kind = "whiteboard" /\ WbExists(whiteboards', last'.room.id))
       => OID(last'.arg) \notin Elems(whiteboards'[last'.room.id].participants)]_vars

(***************************************************************************)
(* The publish right in an access token and in a live update.              *)
(***************************************************************************)
\* Both paths have computed the publish right of the user on the document.
BothPathsDone == perm_call.done /\ emits # <<>>

\* C34: for every session document and user, the can_publish the token route
\* grants equals compute_permissions(session, user).can_publish, the value
\* _update_lk_permissions pushes to the provider.
C34_TokenMatchesLiveUpdate ==
    BothPathsDone => emits[1].data = perm_call.result.can_publish

\* Both paths ran for a user who is not the creator and not in can_speak, and
\* who may publish through can_share_screen alone.
C34_Witness ==
    /\ BothPathsDone
    /\ ~PermIsCreator
    /\ ~PermListed("can_speak")
    /\ PermListed("can_share_screen")
    /\ emits[1].data = TRUE

\* Both paths ran for a user with no right to publish.
C34_WitnessDenied ==
    /\ BothPathsDone
    /\ ~PermIsCreator
    /\ emits[1].data = FALSE

(***************************************************************************)
(* Presence and the connection registry.                                   *)
(***************************************************************************)
\* The user has a registered connection.
HasConnection(uid) == uid \in DOMAIN connected_users /\ connected_users[uid] # {}

\* C35: with no handler in progress, every user in the presence map of any
\* room, of a session or of a group, has a registered connection.
C35_PresentUsersAreConnected ==
    \A room \in DOMAIN online_users :
        \A uid \in DOMAIN online_users[room] : HasConnection(uid)

\* The handler of the last disconnect of u2 has completed: it took u2 out of
\* the presence map of the session's room, where u2 was a participant, and u2
\* is still in the presence map of the group's room.
C35_Witness ==
    /\ last.op = "disconnect" /\ last.arg = "u2"
    /\ ~HasConnection("u2")
    /\ WbRoom("w1") \in DOMAIN online_users
    /\ "u2" \notin DOMAIN online_users[WbRoom("w1")]
    /\ Len(emits) = 2
    /\ GroupRoom \in DOMAIN online_users
    /\ "u2" \in DOMAIN online_users[GroupRoom]

(***************************************************************************)
(* A session is ended once.                                                *)
(***************************************************************************)
\* The session of the id has been ended.
Ended(wbs, id) == WbExists(wbs, id) /\ ~Get(wbs[id], "is_active", TRUE)

\* C36: once a session has been ended, by its creator or at the hard limit,
\* its room has no timer entry, and the monitor ends no session that has been
\* ended before: it broadcasts session_ended and writes is_active and ended_at
\* for a session at most once.
C36_MonitorEndsSessionOnce ==
    [][/\ \A id \in WbIds : Ended(whiteboards', id) => WbRoom(id) \notin DOMAIN room_timers'
       /\ \A id \in WbIds : HardLimitPoll(WbRoom(id)) => ~Ended(whiteboards, id)]_vars

\* The creator has ended the session and the timer of its room is still in
\* room_timers.
C36_Witness ==
    /\ last.op = "end_whiteboard" /\ last.arg = "u1"
    /\ Ended(whiteboards, "w1")
    /\ WbRoom("w1") \in DOMAIN room_timers

\* The monitor is about to end, at the hard limit, the session its creator
\* ended at an earlier time.
C36_WitnessSecondEnd ==
    /\ Ended(whiteboards, "w1")
    /\ whiteboards["w1"].ended_at < now
    /\ WbRoom("w1") \in DOMAIN room_timers
    /\ TimerExpired(room_timers, WbRoom("w1"), now)
    /\ ~polled

\* A member re-joined the room of a session the monitor had ended at the hard
\* limit: the room has a timer again.
C36_WitnessTimerAgain ==
    /\ last.op = "join_room" /\ last.room = WbRoom("w1")
    /\ Ended(whiteboards, "w1")
    /\ WbRoom("w1") \in DOMAIN room_timers
    /\ room_timers[WbRoom("w1")].start_time = whiteboards["w1"].ended_at
    /\ room_timers[WbRoom("w1")].start_time > LIMIT_SECONDS

(***************************************************************************)
(* leave_room in another user's name.                                      *)
(***************************************************************************)
\* The step handles a leave_room of a bound connection whose payload names a
\* user other than the one the connection authenticated as.
SpoofedLeave ==
    /\ last'.op = "leave_room"
    /\ last'.sid \in DOMAIN sid_to_user
    /\ last'.arg # ""
    /\ last'.arg # sid_to_user[last'.sid]

\* The registry entry of the user is what it was.
RegistryKept(uid) ==
    /\ (uid \in DOMAIN connected_users) = (uid \in DOMAIN connected_users')
    /\ uid \in DOMAIN connected_users => connected_users'[uid] = connected_users[uid]

\* C37: a leave_room of a connection authenticated as U that names another
\* user V leaves V alone: V stays in the participants of every session, no
\* user_left for V reaches a connection, and V's registry entry keeps its
\* connections.
C37_LeaveAffectsSenderOnly ==
    [][SpoofedLeave
       => /\ \A id \in DOMAIN whiteboards :
                 OID(last'.arg) \in Elems(whiteboards[id].participants)
                     => OID(last'.arg) \in Elems(whiteboards'[id].participants)
          /\ \A i \in DOMAIN emits' :
                 ~(/\ emits'[i].event = "user_left"
                   /\ emits'[i].user_id = last'.arg
                   /\ emits'[i].to # {})
          /\ RegistryKept(last'.arg)]_vars

\* The connection of u2 left the room of the session in the name of u1, the
\* creator, whose own connection is still registered and in the room: u1 is
\* out of the participants and user_left for u1 went to the room.
C37_Witness ==
    /\ last.op = "leave_room" /\ last.sid = "s3" /\ last.arg = "u1"
    /\ "u1" \in DOMAIN connected_users /\ "s1" \in connected_users["u1"]
    /\ "s1" \in sio_rooms[WbRoom("w1")]
    /\ WbExists(whiteboards, "w1")
    /\ OID("u1") \notin Elems(whiteboards["w1"].participants)
    /\ Len(emits) = 1 /\ emits[1].event = "user_left" /\ emits[1].user_id = "u1"
    /\ emits[1].to = {"s1"}

\* The registry entry of the named user is the one thing such a leave keeps:
\* the sender's sid is not in it.
C37_RegistryOfOtherKept ==
    [][SpoofedLeave => RegistryKept(last'.arg)]_vars


(***************************************************************************)
(* C38: the defaults of a new session.                                     *)
(***************************************************************************)
\* The step is a create_whiteboard_session that stored session id.
CreatedStep(id) ==
    /\ last'.op = "create_whiteboard_session"
    /\ last'.room = WbRoom(id)
    /\ ~WbExists(whiteboards, id)
    /\ WbExists(whiteboards', id)

\* user_id may share the screen of session id.
MayShare(wbs, id, user_id) ==
    WbExists(wbs, id) /\ compute_permissions(wbs[id], STR(user_id)).can_share

IsCreatorOf(wbs, id, user_id) == Str(Get(wbs[id], "created_by", None)) = STR(user_id)

\* C38: right after create_whiteboard_session the session's can_draw and
\* can_speak both equal the group's member list of that moment and its
\* can_share_screen is empty, so every member has can_draw and can_publish
\* and no one but the creator has can_share; a user who is not the creator
\* gains can_share only by a grant_screen_share that names that user; and a
\* draw event with a payload sent by a connection of a user on the can_draw
\* list of the session is broadcast and stored.
C38_NewSessionDefaults ==
    [][/\ \A id \in {"w1"} :
           CreatedStep(id) =>
               LET wb == whiteboards'[id]
               IN  /\ Get(wb, "can_draw", <<>>) = Get(group, "members", <<>>)
                   /\ Get(wb, "can_speak", <<>>) = Get(group, "members", <<>>)
                   /\ Get(wb, "can_share_screen", <<>>) = <<>>
                   /\ \A m \in Elems(Get(group, "members", <<>>)) :
                          /\ compute_permissions(wb, m).can_draw
                          /\ compute_permissions(wb, m).can_publish
                   /\ \A user_id \in Users :
                          MayShare(whiteboards', id, user_id)
                              => IsCreatorOf(whiteboards', id, user_id)
       /\ \A user_id \in Users :
              (/\ MayShare(whiteboards', "w1", user_id)
               /\ ~MayShare(whiteboards, "w1", user_id)
               /\ ~IsCreatorOf(whiteboards', "w1", user_id))
                  => /\ last'.op = "grant_screen_share"
                     /\ last'.arg = user_id
       /\ (/\ last'.op = "whiteboard_draw"
           /\ WbExists(whiteboards, "w1")
           /\ BoundUser(sid_to_user, last'.sid) # ""
           /\ OID(BoundUser(sid_to_user, last'.sid))
                  \in Elems(Get(whiteboards["w1"], "can_draw", <<>>)))
              => /\ Len(emits') = 1
                 /\ emits'[1].event = "draw_update"
                 /\ Len(whiteboards'["w1"].drawing_data)
                        = Len(whiteboards["w1"].drawing_data) + 1]_vars

\* u1 opened the session while u2 was a member; u2, never granted anything,
\* has drawn on it, and has since been granted the screen share by u1.
C38_Witness ==
    /\ WbExists(whiteboards, "w1")
    /\ IsCreatorOf(whiteboards, "w1", "u1")
    /\ Get(whiteboards["w1"], "can_draw", <<>>) = <<OID("u1"), OID("u2")>>
    /\ Get(whiteboards["w1"], "can_speak", <<>>) = <<OID("u1"), OID("u2")>>
    /\ Len(whiteboards["w1"].drawing_data) > 0
    /\ last.op = "grant_screen_share"
    /\ last.arg = "u2"
    /\ MayShare(whiteboards, "w1", "u2")


(***************************************************************************)
(* C39: a day's messages and the days the checker counts.                  *)
(***************************************************************************)
\* The step is a pass of the checker that raises streak_count.
CheckRaisesCount ==
    /\ last'.op = "check_group_streaks"
    /\ group_streaks.doc # None
    /\ group_streaks'.doc # None
    /\ group_streaks'.doc.streak_count > group_streaks.doc.streak_count

\* Every message there is was created on the given day.
AllCreatedOn(day) == \A m \in messages : DateOf(m.created_at) = day

\* C39: when every message of the group was created on day D and a pass on
\* day D has counted that day (last_active_day is D), a pass on day D+1 does
\* not raise streak_count.
C39_DayCountedOnce ==
    [][~(/\ CheckRaisesCount
         /\ group_streaks.today >= 1
         /\ group_streaks.doc.last_active_day = isoformat(group_streaks.today - 1)
         /\ AllCreatedOn(group_streaks.today - 1))]_vars

\* Both members posted at noon of day 0 and never again; a pass at noon
\* counted day 0, and a pass at midnight, on day 1, has counted a second day.
C39_Witness ==
    /\ last.op = "check_group_streaks"
    /\ now = DAY_SECONDS
    /\ messages = {create_message_doc(u, group._id, DAY_SECONDS \div 2) : u \in Users}
    /\ group_streaks.doc # None
    /\ group_streaks.doc.streak_count = 2
    /\ group_streaks.doc.last_active_day = isoformat(1)

\* Passes of one day count it once: a pass on the day that is already the
\* document's last_active_day leaves the document as it is.
C39_SameDayCountedOnce ==
    [][(/\ last'.op = "check_group_streaks"
        /\ group_streaks.doc # None
        /\ group_streaks.doc.last_active_day = isoformat(group_streaks.today))
           => group_streaks'.doc = group_streaks.doc]_vars

=============================================================================
